---------------------------- MODULE Spec2Model ----------------------------
(***************************************************************************)
(* Resilience and caching subsystem of the Odoo CRM integration server:    *)
(* the CircuitBreaker state machine (utils/circuit-breaker.ts) and the     *)
(* stale-while-revalidate cache providers (cache-memory.ts,                *)
(* cache-redis.ts), modelled as state machines under single-threaded       *)
(* cooperative scheduling: every synchronous stretch of a handler is one   *)
(* atomic action, and handlers interleave at their await points.           *)
(***************************************************************************)
EXTENDS Integers, Sequences, FiniteSets, Bags, TLC

(***************************************************************************)
(* Bounds of the model                                                     *)
(***************************************************************************)
\* concurrent execute() calls
MaxCalls == 3
\* clock ticks explored
MaxTicks == 5
\* milliseconds per clock tick
TickMs == 400
\* cap on failureCount (the code's counter is unbounded)
MaxFailures == 3
\* cap on successCount (the code's counter is unbounded)
MaxSuccess == 2

\* cache operations in flight (suspended at an await)
MaxTasks == 2
\* cap on hits and on misses (the code's counters are unbounded)
MaxCount == 2

\* largest hits and misses counter values getMetrics is applied to
MaxHits == 23
MaxMisses == 17

\* largest maxRetries argument of executeWithRetry explored
MaxAttempts == 3

\* the max option of the LRUCache explored (CACHE_CONFIG.MAX_SIZE is 500)
MaxSize == 2

\* cap on the providers the cache factory constructs
MaxInstances == 5

\* constructor parameters explored
Thresholds == {1, 2}
ResetTimeouts == {800}
HalfOpenLimits == {1, 2}
\* halfOpenMaxAttempts as the constructor takes it: any number, 0 included
QuotaLimits == {0} \cup HalfOpenLimits

\* significand width of an IEEE-754 double (the Number type)
SigBits == 53
\* long arithmetic: bits per limb, and quotient limbs computed by a division
\* (enough for SigBits bits and a guard bit)
LimbBits == 13
QuotientLimbs == 5

\* null (lastFailureTime, lastStateChange, secondsUntilHalfOpen)
Null == -1
\* Math.ceil(remaining / 1000)
MsPerSecond == 1000
\* the fixed hint of the HALF_OPEN fail-fast error
HalfOpenRetrySeconds == 5

\* values the wrapped function resolves with / rejects with
FnResults == {"r1", "r2"}
FnErrors == {"e1", "e2"}

\* cache keys, and the ttlMs and refreshThresholdPercent arguments explored
Keys == {"k1"}
CacheTtls == {800}
Percents == {50}
\* the ttlMs arguments of set() explored (negative, zero, positive)
StoreTtls == {0 - 400, 0, 800}
\* delay between Date.now() in RedisCache.set and the server starting the PX
\* countdown of the SET
Lags == {0, 400}

CLOSED == "CLOSED"
OPEN == "OPEN"
HALF_OPEN == "HALF_OPEN"
CircuitState == {CLOSED, OPEN, HALF_OPEN}

VARIABLES
  now,      \* Date.now()
  cfg,      \* the CircuitBreaker's constructor parameters
  cb,       \* the CircuitBreaker's private fields
  calls,    \* execute() calls suspended at `await fn()`, counted by the
            \* state the breaker had when each was admitted
  event,    \* what the last operation did and delivered to its caller
  hist,     \* history of the run (not program state)
  backend,  \* the cache provider in use: "memory" (MemoryCache) or "redis" (RedisCache)
  cache,    \* MemoryCache.cache: key -> CacheEntry
  redis,    \* the keys of the Redis server: key -> serialized CacheEntry, expiry
  hits,     \* provider.hits
  misses,   \* provider.misses
  refreshingKeys,  \* provider.refreshingKeys
  tasks,    \* cache operations suspended at an await (a bag)
  cev,      \* what the last cache operation did and delivered to its caller
  rt,       \* the executeWithRetry call: its arguments, locals and position
  factory,  \* utils/cache.ts: cacheInstance and the providers constructed
  registry, \* services/shared-circuit-breaker.ts: sharedBreaker and the
            \* CircuitBreaker objects constructed
  lru       \* a MemoryCache whose LRUCache holds several keys

breakerVars == <<cfg, cb, calls, event, hist>>
cacheVars == <<backend, cache, redis, hits, misses, refreshingKeys, tasks, cev>>
moduleVars == <<rt, factory, registry, lru>>
outsideBreaker == <<cacheVars, moduleVars>>
outsideCache == <<breakerVars, moduleVars>>
vars == <<now, cfg, cb, calls, event, hist,
          backend, cache, redis, hits, misses, refreshingKeys, tasks, cev,
          rt, factory, registry, lru>>

state == cb.state
failureCount == cb.failureCount
successCount == cb.successCount
lastFailureTime == cb.lastFailureTime
lastStateChange == cb.lastStateChange
halfOpenAttempts == cb.halfOpenAttempts
failureThreshold == cfg.failureThreshold
resetTimeoutMs == cfg.resetTimeoutMs
halfOpenMaxAttempts == cfg.halfOpenMaxAttempts

(***************************************************************************)
(* CircuitBreaker                                                          *)
(***************************************************************************)
\* Math.ceil(a / b) for b > 0 (\div rounds toward minus infinity)
Ceil(a, b) == -((-a) \div b)

NewCircuitBreaker ==
  [state |-> CLOSED, failureCount |-> 0, successCount |-> 0,
   lastFailureTime |-> Null, lastStateChange |-> Null, halfOpenAttempts |-> 0]

transitionTo(b, newState, t) ==
  IF b.state # newState
  THEN [b EXCEPT !.state = newState, !.lastStateChange = t]
  ELSE b

shouldTransitionToHalfOpen(b, t) ==
  IF b.lastFailureTime = Null THEN TRUE
  ELSE (t - b.lastFailureTime) >= resetTimeoutMs

\* mutant: Math.floor in place of Math.ceil
getSecondsUntilHalfOpenFloor(b, t) ==
  IF b.lastFailureTime = Null THEN 0
  ELSE LET remaining == resetTimeoutMs - (t - b.lastFailureTime)
       IN IF remaining > 0 THEN remaining \div MsPerSecond ELSE 0

getSecondsUntilHalfOpen(b, t) ==
  IF b.lastFailureTime = Null THEN 0
  ELSE LET elapsed == t - b.lastFailureTime
           remaining == resetTimeoutMs - elapsed
       IN IF remaining > 0 THEN Ceil(remaining, MsPerSecond) ELSE 0

\* getMetrics().secondsUntilHalfOpen
secondsUntilHalfOpen(b, t) ==
  IF b.state = OPEN /\ b.lastFailureTime # Null
  THEN LET elapsed == t - b.lastFailureTime
           remaining == resetTimeoutMs - elapsed
       IN IF remaining > 0 THEN Ceil(remaining, MsPerSecond) ELSE 0
  ELSE Null

getMetrics(b, t) ==
  [state |-> b.state, failureCount |-> b.failureCount,
   successCount |-> b.successCount, lastFailureTime |-> b.lastFailureTime,
   lastStateChange |-> b.lastStateChange,
   secondsUntilHalfOpen |-> secondsUntilHalfOpen(b, t)]

\* mutant: a success while CLOSED leaves failureCount as it is
onSuccessNoDecay(b, t) ==
  LET b1 == [b EXCEPT !.successCount = @ + 1]
  IN IF b1.state = HALF_OPEN
     THEN [transitionTo(b1, CLOSED, t) EXCEPT !.failureCount = 0, !.halfOpenAttempts = 0]
     ELSE b1

\* mutant: a success in HALF_OPEN is counted and the circuit is not closed
onSuccessStaysHalfOpen(b, t) ==
  LET b1 == [b EXCEPT !.successCount = @ + 1]
  IN IF b1.state = CLOSED
     THEN [b1 EXCEPT !.failureCount = 0]
     ELSE b1

onSuccess(b, t) ==
  LET b1 == [b EXCEPT !.successCount = @ + 1]
  IN IF b1.state = HALF_OPEN
     THEN [transitionTo(b1, CLOSED, t) EXCEPT !.failureCount = 0, !.halfOpenAttempts = 0]
     ELSE IF b1.state = CLOSED
          THEN [b1 EXCEPT !.failureCount = 0]
          ELSE b1

\* mutant: failureCount > failureThreshold
thresholdExceeded(count) == count > failureThreshold

\* the comparison of failureCount with failureThreshold in onFailure
thresholdReached(count) == count >= failureThreshold

\* mutant: a failed trial reopens the circuit without restarting the timeout
onFailureKeepsWindow(b, t) ==
  LET b1 == [b EXCEPT !.failureCount = @ + 1]
  IN IF b1.state = HALF_OPEN
     THEN [transitionTo(b1, OPEN, t) EXCEPT !.halfOpenAttempts = 0]
     ELSE IF b1.state = CLOSED
          THEN IF thresholdReached(b1.failureCount)
               THEN transitionTo([b1 EXCEPT !.lastFailureTime = t], OPEN, t)
               ELSE [b1 EXCEPT !.lastFailureTime = t]
          ELSE b1

\* mutant: a failed trial reopens the circuit without zeroing halfOpenAttempts
onFailureKeepsAttempts(b, t) ==
  LET b1 == [b EXCEPT !.failureCount = @ + 1, !.lastFailureTime = t]
  IN IF b1.state = HALF_OPEN
     THEN transitionTo(b1, OPEN, t)
     ELSE IF b1.state = CLOSED
          THEN IF thresholdReached(b1.failureCount)
               THEN transitionTo(b1, OPEN, t)
               ELSE b1
          ELSE b1

onFailure(b, t) ==
  LET b1 == [b EXCEPT !.failureCount = @ + 1, !.lastFailureTime = t]
  IN IF b1.state = HALF_OPEN
     THEN [transitionTo(b1, OPEN, t) EXCEPT !.halfOpenAttempts = 0]
     ELSE IF b1.state = CLOSED
          THEN IF thresholdReached(b1.failureCount)
               THEN transitionTo(b1, OPEN, t)
               ELSE b1
          ELSE b1

\* mutant: halfOpenAttempts > halfOpenMaxAttempts
quotaExceeded(b) == b.halfOpenAttempts > halfOpenMaxAttempts

\* the HALF_OPEN quota check of execute
quotaConsumed(b) == b.halfOpenAttempts >= halfOpenMaxAttempts

\* execute() up to `await fn()`: the breaker after the admission checks, and
\* whether fn is invoked or a CircuitBreakerError(secondsUntilRetry) is thrown
admit(b, t) ==
  IF b.state = OPEN /\ ~shouldTransitionToHalfOpen(b, t)
  THEN [cb |-> b, invoked |-> FALSE, secondsUntilRetry |-> getSecondsUntilHalfOpen(b, t)]
  ELSE LET b1 == IF b.state = OPEN
                 THEN [transitionTo(b, HALF_OPEN, t) EXCEPT !.halfOpenAttempts = 0]
                 ELSE b
       IN IF b1.state = HALF_OPEN
          THEN IF quotaConsumed(b1)
               THEN [cb |-> b1, invoked |-> FALSE, secondsUntilRetry |-> HalfOpenRetrySeconds]
               ELSE [cb |-> [b1 EXCEPT !.halfOpenAttempts = @ + 1],
                     invoked |-> TRUE, secondsUntilRetry |-> Null]
          ELSE [cb |-> b1, invoked |-> TRUE, secondsUntilRetry |-> Null]

\* `return result` / `throw error` of execute after fn settled
returned(result) == result
\* mutant: the failure is replaced by the breaker's own error
rethrownAsBreakerError(error) == "CircuitBreakerError"
rethrown(error) == error

\* mutant: reset() also zeroes the lifetime success counter
resetCounters(b, t) ==
  [transitionTo(b, CLOSED, t) EXCEPT !.failureCount = 0, !.halfOpenAttempts = 0,
                                     !.successCount = 0]

\* mutant: reset() closes the circuit and keeps the failures counted so far
resetKeepsFailures(b, t) ==
  [transitionTo(b, CLOSED, t) EXCEPT !.halfOpenAttempts = 0]

reset(b, t) ==
  [transitionTo(b, CLOSED, t) EXCEPT !.failureCount = 0, !.halfOpenAttempts = 0]

Admissions == {CLOSED, HALF_OPEN}
InFlight == calls[CLOSED] + calls[HALF_OPEN]

\* an operation as its caller sees it: what execute delivered (outcome, value,
\* the CircuitBreakerError's secondsUntilRetry) and how fn settled in it
NoFn == <<"none", "none">>
Ev(op, outcome, value, hint, fn) ==
  [op |-> op, outcome |-> outcome, value |-> value, hint |-> hint, fn |-> fn]

\* history: the failures completed since the last success or reset
\* (consecFails), whether that streak began CLOSED with failureCount = 0
\* (fromClosed), the calls admitted since the last entry into HALF_OPEN
\* (trialsAdmitted) and the time of the last failed HALF_OPEN trial since the
\* last reset() (trialFailedAt)
NewHistory ==
  [consecFails |-> 0, fromClosed |-> TRUE, trialsAdmitted |-> 0,
   trialFailedAt |-> Null]

(***************************************************************************)
(* Cache providers: MemoryCache and RedisCache                             *)
(***************************************************************************)
NoEntry == [data |-> "none", createdAt |-> Null, expiresAt |-> Null]
NoRaw == [raw |-> <<>>, pxAt |-> Null]

\* the CacheEntry built by set()
newEntry(data, t, ttlMs) == [data |-> data, createdAt |-> t, expiresAt |-> t + ttlMs]

\* JSON.stringify(entry) / JSON.parse(raw) of a CacheEntry
jsonStringify(entry) == <<"data", entry.data, "createdAt", entry.createdAt,
                          "expiresAt", entry.expiresAt>>
jsonParse(raw) == [data |-> raw[2], createdAt |-> raw[4], expiresAt |-> raw[6]]

\* client.get(prefixedKey): the serialized entry, or null (<<>>) when the key
\* is absent or its native expiry (SET ... PX ttlMs) has passed
clientGet(k, t) ==
  IF redis[k] # NoRaw /\ t <= redis[k].pxAt THEN redis[k].raw ELSE <<>>

\* client.set(prefixedKey, JSON.stringify(entry), 'PX', ttlMs) as the server
\* applies it (ok), or not at all (the command failed)
clientSet(k, entry, t, ttlMs, ok) ==
  IF ok THEN [redis EXCEPT ![k] = [raw |-> jsonStringify(entry), pxAt |-> t + ttlMs]]
  ELSE redis

\* client.exists(prefixedKey) === 1
clientExists(k, t) == redis[k] # NoRaw /\ t <= redis[k].pxAt
\* client.keys(KEY_PREFIX + '*'), prefixes stripped
clientKeys(t) == {k \in Keys : clientExists(k, t)}
\* client.del(...keys) as the server applies it (ok), or not at all
clientDel(keys, ok) ==
  IF ok THEN [k \in Keys |-> IF k \in keys THEN NoRaw ELSE redis[k]] ELSE redis

\* the freshness window taken as always over
stillFreshNever(entry, t, ttlMs, pct) == FALSE
\* now < entry.createdAt + (ttlMs * refreshThresholdPercent / 100)
stillFresh(entry, t, ttlMs, pct) == 100 * t < 100 * entry.createdAt + ttlMs * pct
\* now < entry.expiresAt
staleButValid(entry, t) == t < entry.expiresAt
\* the duplicate-refresh guard left out
mayRefreshUnguarded(keys, k) == TRUE
\* !this.refreshingKeys.has(key)
mayRefresh(keys, k) == k \notin keys

Task(kind, k, ttlMs, value, at) ==
  [kind |-> kind, key |-> k, ttlMs |-> ttlMs, value |-> value, at |-> at]
Spawn(t) == tasks (+) SetToBag({t})
Finish(t) == tasks (-) SetToBag({t})
Pending == BagToSet(tasks)
Room == BagCardinality(tasks) < MaxTasks

CEv(op, k, ttlMs, pct, outcome, value, started) ==
  [op |-> op, key |-> k, ttlMs |-> ttlMs, pct |-> pct, outcome |-> outcome,
   value |-> value, started |-> started]

\* the branch getWithRefresh takes on the entry it looked up
lookup(entry, present, t, ttlMs, pct) ==
  IF present /\ stillFresh(entry, t, ttlMs, pct) THEN "fresh"
  ELSE IF present /\ staleButValid(entry, t) THEN "stale"
  ELSE "miss"

\* a provider right after construction
NewCache(b) ==
  /\ backend = b
  /\ cache = [k \in Keys |-> NoEntry]
  /\ redis = [k \in Keys |-> NoRaw]
  /\ hits = 0
  /\ misses = 0
  /\ refreshingKeys = {}
  /\ tasks = EmptyBag
  /\ cev = CEv("init", "none", 0, 0, "none", "none", FALSE)

NewBreaker(c) ==
  /\ cfg = c
  /\ cb = NewCircuitBreaker
  /\ calls = [a \in Admissions |-> 0]
  /\ event = Ev("init", "none", "none", Null, NoFn)
  /\ hist = NewHistory

\* a CircuitBreaker with the default parameters
DefaultConfig ==
  [failureThreshold |-> 5, resetTimeoutMs |-> 60000, halfOpenMaxAttempts |-> 1]

(***************************************************************************)
(* utils/retry.ts: executeWithRetry                                        *)
(***************************************************************************)
\* Network/server errors that should trigger retry
RETRYABLE_PATTERNS ==
  {"ECONNREFUSED", "ECONNRESET", "ETIMEDOUT", "EHOSTUNREACH",
   "socket hang up", "ENOTFOUND", "500", "502", "503", "504", "Traceback"}
\* Client errors that should NOT be retried
NON_RETRYABLE_PATTERNS ==
  {"Invalid credentials", "Access Denied", "Forbidden",
   "unknown field", "does not have attribute", "invalid literal"}

\* a thrown value: an Error with a message, or a thrown string; its text is
\* a sequence of fragments, each a pattern of one of the lists or other text
Thrown(isError, text) == [isError |-> isError, text |-> text]
\* `${secondsUntilRetry}`: the decimal digits of a number that is not negative
RECURSIVE toDecimal(_)
toDecimal(n) ==
  LET digit == <<"0", "1", "2", "3", "4", "5", "6", "7", "8", "9">>[(n % 10) + 1]
  IN IF n < 10 THEN <<digit>> ELSE Append(toDecimal(n \div 10), digit)
\* the CircuitBreakerError of execute in OPEN before the reset timeout
OpenError(secondsUntilRetry) ==
  Thrown(TRUE, <<"Odoo service temporarily unavailable. Connection will be retried in ">>
               \o toDecimal(secondsUntilRetry) \o <<" seconds.">>)
\* the CircuitBreakerError of execute in HALF_OPEN with the quota consumed
TrialError == Thrown(TRUE, <<"Odoo service recovery test in progress. Please wait.">>)
\* the values the wrapped function rejects with
ThrownValues ==
  {Thrown(TRUE, <<"read ", "ECONNRESET">>),
   Thrown(TRUE, <<"Invalid credentials">>),
   Thrown(TRUE, <<"Access Denied", " (", "503", ")">>),
   Thrown(TRUE, <<"boom">>),
   Thrown(FALSE, <<"connect ", "ETIMEDOUT">>)}
\* `let lastError: unknown;`
Undefined == Thrown(FALSE, <<"undefined">>)
\* the baseDelayMs arguments explored
BaseDelays == {400, 1000}
\* the retry loop around the breaker: the breaker configurations, among them
\* a reset timeout of 500 seconds, and what the wrapped function settles with
GuardedThresholds == {1}
GuardedTimeouts == {800, 500000}
GuardedLimits == {1}
GuardedDelays == {400}
GuardedResults == {"r1"}
GuardedErrors == {Thrown(TRUE, <<"read ", "ECONNRESET">>)}

\* error instanceof Error ? error.message : String(error)
messageOf(error) == error.text
\* the characters of a pattern made of digits; any other pattern is a
\* fragment of its own
Characters(pattern) ==
  CASE pattern = "500" -> <<"5", "0", "0">>
    [] pattern = "502" -> <<"5", "0", "2">>
    [] pattern = "503" -> <<"5", "0", "3">>
    [] pattern = "504" -> <<"5", "0", "4">>
    [] OTHER -> <<pattern>>
\* message.includes(pattern): the pattern is a fragment of the message or is
\* spelled by consecutive fragments of it
includes(message, pattern) ==
  \E i \in 1..Len(message) :
     \/ message[i] = pattern
     \/ LET chars == Characters(pattern)
        IN /\ i + Len(chars) - 1 <= Len(message)
           /\ SubSeq(message, i, i + Len(chars) - 1) = chars

\* the retryable list consulted before the non-retryable one
isRetryableErrorRetryFirst(error) ==
  \E pattern \in RETRYABLE_PATTERNS : includes(messageOf(error), pattern)
\* unknown errors retried
isRetryableErrorOpen(error) ==
  ~ \E pattern \in NON_RETRYABLE_PATTERNS : includes(messageOf(error), pattern)
isRetryableError(error) ==
  LET message == messageOf(error)
  IN IF \E pattern \in NON_RETRYABLE_PATTERNS : includes(message, pattern)
     THEN FALSE
     ELSE IF \E pattern \in RETRYABLE_PATTERNS : includes(message, pattern)
          THEN TRUE
          ELSE FALSE

\* the last attempt not recognised
shouldThrowOnlyNonRetryable(error, attempt, maxRetries) == ~isRetryableError(error)
\* !isRetryableError(error) || attempt === maxRetries
shouldThrow(error, attempt, maxRetries) ==
  ~isRetryableError(error) \/ attempt = maxRetries

\* the exponent taken from attempt instead of attempt - 1
backoffFromAttempt(baseDelayMs, attempt) == baseDelayMs * 2^attempt
\* baseDelayMs * Math.pow(2, attempt - 1)
backoff(baseDelayMs, attempt) == baseDelayMs * 2^(attempt - 1)

NoRetryCall ==
  [phase |-> "idle", maxRetries |-> 0, baseDelayMs |-> 0, attempt |-> 0,
   lastError |-> Undefined, delay |-> 0,
   invoked |-> 0, errors |-> <<>>, waits |-> <<>>,
   result |-> "none", thrown |-> Undefined]

\* the for loop reaches its test with this attempt number
retryLoop(r, attempt) ==
  IF attempt <= r.maxRetries
  THEN [r EXCEPT !.phase = "calling", !.attempt = attempt, !.invoked = @ + 1]
  ELSE [r EXCEPT !.phase = "threw", !.attempt = attempt, !.thrown = r.lastError]

\* executeWithRetry(fn, maxRetries, baseDelayMs) up to its first await
RetryStart(maxRetries, baseDelayMs) ==
  /\ rt.phase \in {"idle", "returned", "threw"}
  /\ rt' = retryLoop([NoRetryCall EXCEPT !.maxRetries = maxRetries,
                                         !.baseDelayMs = baseDelayMs], 1)
  /\ UNCHANGED <<now, breakerVars, cacheVars, factory, registry, lru>>

\* a resolved fn() taken for a failed attempt
RetryFnResolveGoesOn(v) ==
  /\ rt.phase = "calling"
  /\ rt' = [rt EXCEPT !.phase = "waiting", !.result = v,
                      !.delay = backoff(rt.baseDelayMs, rt.attempt)]
  /\ UNCHANGED <<now, breakerVars, cacheVars, factory, registry, lru>>
\* fn() resolved: return await fn()
RetryFnResolve(v) ==
  /\ rt.phase = "calling"
  /\ rt' = [rt EXCEPT !.phase = "returned", !.result = v]
  /\ UNCHANGED <<now, breakerVars, cacheVars, factory, registry, lru>>

\* the catch block up to the throw or the await of the timer
caught(r0, error) ==
  LET r == [r0 EXCEPT !.lastError = error, !.errors = Append(@, error)]
  IN IF shouldThrow(error, r.attempt, r.maxRetries)
     THEN [r EXCEPT !.phase = "threw", !.thrown = error]
     ELSE [r EXCEPT !.phase = "waiting",
                    !.delay = backoff(r.baseDelayMs, r.attempt)]

\* fn() rejected
RetryFnReject(error) ==
  /\ rt.phase = "calling"
  /\ rt' = caught(rt, error)
  /\ UNCHANGED <<now, breakerVars, cacheVars, factory, registry, lru>>

\* the timer fires after rt.delay ms: attempt++ and the loop test
RetryTimer ==
  /\ rt.phase = "waiting"
  /\ rt' = retryLoop([rt EXCEPT !.waits = Append(@, rt.delay), !.delay = 0],
                     rt.attempt + 1)
  /\ UNCHANGED <<now, breakerVars, cacheVars, factory, registry, lru>>

(***************************************************************************)
(* utils/cache.ts: the cache factory                                       *)
(***************************************************************************)
\* utils/cache.ts before the module is evaluated, under a CACHE_TYPE;
\* instances lists the providers constructed so far by their class, and an
\* instance is named by its index in the list; served and built are the
\* instances getCache returned and constructed since the last resetCache
\* (history, not program state)
NoFactory(cacheType) ==
  [loaded |-> FALSE, cacheType |-> cacheType, cacheInstance |-> Null,
   instances |-> <<>>, cache |-> Null,
   op |-> "init", returned |-> Null, served |-> {}, built |-> 0]

\* createCache(): the class of the provider it constructs; okRequire is
\* whether require('./cache-redis.js') and the constructor succeed
createCache(cacheType, okRequire) ==
  IF cacheType = "redis"
  THEN IF okRequire THEN "RedisCache" ELSE "MemoryCache"
  ELSE "MemoryCache"

\* getCache() without the test of cacheInstance
getCacheAlwaysCreates(f, okRequire) ==
  [f EXCEPT !.instances = Append(@, createCache(f.cacheType, okRequire)),
            !.cacheInstance = Len(f.instances) + 1]
\* getCache(): the factory it leaves; cacheInstance is what it returns
getCache(f, okRequire) ==
  IF f.cacheInstance = Null
  THEN [f EXCEPT !.instances = Append(@, createCache(f.cacheType, okRequire)),
                 !.cacheInstance = Len(f.instances) + 1]
  ELSE f

\* resetCache() leaving the reference in place
resetCacheKeeps(f) == f
\* resetCache()
resetCache(f) == [f EXCEPT !.cacheInstance = Null]

\* the module is evaluated: export const cache = getCache()
FactoryLoad(okRequire) ==
  /\ ~factory.loaded
  /\ LET f == getCache(factory, okRequire)
     IN factory' = [f EXCEPT !.loaded = TRUE, !.cache = f.cacheInstance,
                             !.op = "load", !.returned = f.cacheInstance,
                             !.served = {f.cacheInstance},
                             !.built = Len(f.instances) - Len(factory.instances)]
  /\ UNCHANGED <<now, breakerVars, cacheVars, rt, registry, lru>>

\* a caller's getCache()
FactoryGetCache(okRequire) ==
  /\ factory.loaded
  /\ Len(factory.instances) < MaxInstances
  /\ LET f == getCache(factory, okRequire)
     IN factory' = [f EXCEPT !.op = "getCache", !.returned = f.cacheInstance,
                             !.served = @ \cup {f.cacheInstance},
                             !.built = @ + Len(f.instances) - Len(factory.instances)]
  /\ UNCHANGED <<now, breakerVars, cacheVars, rt, registry, lru>>

\* a caller's resetCache()
FactoryResetCache ==
  /\ factory.loaded
  /\ factory' = [resetCache(factory) EXCEPT !.op = "resetCache", !.returned = Null,
                                            !.served = {}, !.built = 0]
  /\ UNCHANGED <<now, breakerVars, cacheVars, rt, registry, lru>>

(***************************************************************************)
(* services/shared-circuit-breaker.ts: the shared circuit breaker          *)
(***************************************************************************)
\* the module after its evaluation: `let sharedBreaker = null`; objects lists
\* the CircuitBreaker objects constructed so far (their private fields), and
\* an object is named by its index in the list
NoRegistry ==
  [sharedBreaker |-> Null, objects |-> <<>>,
   op |-> "init", on |-> Null, returned |-> "none"]

\* getSharedCircuitBreaker(): the registry it leaves; sharedBreaker is what
\* it returns
getSharedCircuitBreaker(r) ==
  IF r.sharedBreaker = Null
  THEN [r EXCEPT !.objects = Append(@, NewCircuitBreaker),
                 !.sharedBreaker = Len(r.objects) + 1]
  ELSE r

\* reset by way of the getter, which constructs the breaker when there is none
resetSharedThroughGetter(r, t) ==
  LET r1 == getSharedCircuitBreaker(r)
  IN [r1 EXCEPT !.objects[r1.sharedBreaker] = reset(@, t)]
\* reset by replacing the instance
resetSharedReplaces(r, t) ==
  IF r.sharedBreaker # Null
  THEN [r EXCEPT !.objects = Append(@, NewCircuitBreaker),
                 !.sharedBreaker = Len(r.objects) + 1]
  ELSE r
\* resetSharedCircuitBreaker()
resetSharedCircuitBreaker(r, t) ==
  IF r.sharedBreaker # Null
  THEN [r EXCEPT !.objects[r.sharedBreaker] = reset(@, t)]
  ELSE r

\* a caller's getSharedCircuitBreaker()
RegistryGet ==
  /\ LET r == getSharedCircuitBreaker(registry)
     IN registry' = [r EXCEPT !.op = "get", !.on = r.sharedBreaker, !.returned = "none"]
  /\ UNCHANGED <<now, breakerVars, cacheVars, rt, factory, lru>>

\* getSharedCircuitBreakerState()
RegistryGetState ==
  /\ LET r == getSharedCircuitBreaker(registry)
     IN registry' = [r EXCEPT !.op = "getState", !.on = r.sharedBreaker,
                              !.returned = r.objects[r.sharedBreaker].state]
  /\ UNCHANGED <<now, breakerVars, cacheVars, rt, factory, lru>>

\* getSharedCircuitBreakerMetrics()
RegistryGetMetrics ==
  /\ LET r == getSharedCircuitBreaker(registry)
     IN registry' = [r EXCEPT !.op = "getMetrics", !.on = r.sharedBreaker,
                              !.returned = getMetrics(r.objects[r.sharedBreaker], now)]
  /\ UNCHANGED <<now, breakerVars, cacheVars, rt, factory, lru>>

\* resetSharedCircuitBreaker()
RegistryReset ==
  /\ LET r == resetSharedCircuitBreaker(registry, now)
     IN registry' = [r EXCEPT !.op = "reset", !.on = r.sharedBreaker, !.returned = "none"]
  /\ UNCHANGED <<now, breakerVars, cacheVars, rt, factory, lru>>

\* a pooled client runs getSharedCircuitBreaker().execute(fn) and fn settles
\* (ok: it resolves) before anything else runs
RegistryExecute(ok) ==
  /\ LET r == getSharedCircuitBreaker(registry)
         a == admit(r.objects[r.sharedBreaker], now)
         b == IF ~a.invoked THEN a.cb
              ELSE IF ok THEN onSuccess(a.cb, now) ELSE onFailure(a.cb, now)
     IN /\ b.failureCount <= MaxFailures
        /\ b.successCount <= MaxSuccess
        /\ registry' = [r EXCEPT !.objects[r.sharedBreaker] = b,
                                 !.op = "execute", !.on = r.sharedBreaker,
                                 !.returned = IF ~a.invoked THEN "CircuitBreakerError"
                                              ELSE IF ok THEN "resolved" ELSE "rejected"]
  /\ UNCHANGED <<now, breakerVars, cacheVars, rt, factory, lru>>

(***************************************************************************)
(* MemoryCache over its LRUCache({ max }), with several keys               *)
(***************************************************************************)
\* the keys (one more than the store holds) and the set() ttlMs arguments
\* explored (an entry set with a
\* negative ttlMs is expired from the start), and the thresholds of
\* getWithRefresh (0: every live entry is stale)
LruKeys == {<<"a", "b", "c", "d", "e">>[i] : i \in 1..(MaxSize + 1)}
LruTtls == {0 - 400, 800}
\* the keys getWithRefresh is called with
LruRefreshKeys == {"a"}
LruPercents == {0, 50}

\* new LRUCache({ max }): order lists the keys held, least recently used
\* first; entry maps the keys to their values
NewLru(max) == [max |-> max, order |-> <<>>, entry |-> [k \in LruKeys |-> NoEntry]]

NewModules ==
  /\ rt = NoRetryCall
  /\ factory = NoFactory("memory")
  /\ registry = NoRegistry
  /\ lru = NewLru(MaxSize)



RetryInit ==
  /\ now = 0
  /\ NewBreaker(DefaultConfig)
  /\ NewCache("memory")
  /\ NewModules

FactoryInit ==
  /\ now = 0
  /\ NewBreaker(DefaultConfig)
  /\ NewCache("memory")
  /\ rt = NoRetryCall
  /\ \E cacheType \in {"memory", "redis"} : factory = NoFactory(cacheType)
  /\ registry = NoRegistry
  /\ lru = NewLru(MaxSize)

FactoryNext ==
  \/ \E okRequire \in BOOLEAN : FactoryLoad(okRequire)
  \/ \E okRequire \in BOOLEAN : FactoryGetCache(okRequire)
  \/ FactoryResetCache

FactorySpec == FactoryInit /\ [][FactoryNext]_vars

RetryNext ==
  \/ \E maxRetries \in 0..MaxAttempts, baseDelayMs \in BaseDelays :
        RetryStart(maxRetries, baseDelayMs)
  \/ \E v \in FnResults : RetryFnResolve(v)
  \/ \E error \in ThrownValues : RetryFnReject(error)
  \/ RetryTimer

RetrySpec == RetryInit /\ [][RetryNext]_vars

Init ==
  /\ now = 0
  /\ NewModules
  /\ \E c \in [failureThreshold : Thresholds,
                resetTimeoutMs : ResetTimeouts,
                halfOpenMaxAttempts : HalfOpenLimits] : NewBreaker(c)
  /\ NewCache("memory")

\* execute(fn) from its entry to `await fn()` or to the CircuitBreakerError
Admission(a) ==
  /\ a.invoked => InFlight < MaxCalls
  /\ cb' = a.cb
  /\ calls' = IF a.invoked
              THEN [calls EXCEPT ![a.cb.state] = @ + 1]
              ELSE calls
  /\ event' = IF a.invoked
              THEN Ev("execute", "invoked", "none", Null, NoFn)
              ELSE Ev("execute", "threw", "CircuitBreakerError", a.secondsUntilRetry, NoFn)
  /\ hist' = [hist EXCEPT
                !.trialsAdmitted =
                   IF a.cb.state # HALF_OPEN THEN 0
                   ELSE (IF state = HALF_OPEN THEN @ ELSE 0)
                        + (IF a.invoked THEN 1 ELSE 0)]

ExecuteStart ==
  /\ Admission(admit(cb, now))
  /\ UNCHANGED <<now, cfg>>
  /\ UNCHANGED outsideBreaker

\* fn() resolved with v: onSuccess(), return result
SettleSuccess(c, v) ==
  /\ calls[c] > 0
  /\ cb.successCount < MaxSuccess
  /\ cb' = onSuccess(cb, now)
  /\ calls' = [calls EXCEPT ![c] = @ - 1]
  /\ event' = Ev("settle", "returned", returned(v), Null, <<"resolved", v>>)
  /\ hist' = [hist EXCEPT !.consecFails = 0,
                          !.fromClosed = (cb'.state = CLOSED /\ cb'.failureCount = 0),
                          !.trialsAdmitted = IF cb'.state = HALF_OPEN THEN @ ELSE 0]
  /\ UNCHANGED <<now, cfg>>
  /\ UNCHANGED outsideBreaker

\* fn() rejected with e: onFailure(), throw error
SettleFailure(c, e) ==
  /\ calls[c] > 0
  /\ cb.failureCount < MaxFailures
  /\ cb' = onFailure(cb, now)
  /\ calls' = [calls EXCEPT ![c] = @ - 1]
  /\ event' = Ev("settle", "threw", rethrown(e), Null, <<"rejected", e>>)
  /\ hist' = [hist EXCEPT !.consecFails = @ + 1,
                          !.trialsAdmitted = IF cb'.state = HALF_OPEN THEN @ ELSE 0,
                          !.trialFailedAt =
                             IF state = HALF_OPEN /\ c = HALF_OPEN
                             THEN now ELSE @]
  /\ UNCHANGED <<now, cfg>>
  /\ UNCHANGED outsideBreaker

Reset ==
  /\ cb' = reset(cb, now)
  /\ event' = Ev("reset", "none", "none", Null, NoFn)
  /\ hist' = NewHistory
  /\ UNCHANGED <<now, cfg, calls>>
  /\ UNCHANGED outsideBreaker

Tick ==
  /\ now + TickMs <= MaxTicks * TickMs
  /\ now' = now + TickMs
  /\ event' = Ev("tick", "none", "none", Null, NoFn)
  /\ UNCHANGED <<cfg, cb, calls, hist>>
  /\ UNCHANGED outsideBreaker

Next ==
  \/ ExecuteStart
  \/ \E c \in Admissions, v \in FnResults : SettleSuccess(c, v)
  \/ \E c \in Admissions, e \in FnErrors : SettleFailure(c, e)
  \/ Reset
  \/ Tick

Spec == Init /\ [][Next]_vars

\* the shared circuit breaker under its accessors and its use by callers
RegistryInit ==
  /\ now = 0
  /\ NewModules
  /\ \E c \in [failureThreshold : Thresholds,
                resetTimeoutMs : ResetTimeouts,
                halfOpenMaxAttempts : HalfOpenLimits] : NewBreaker(c)
  /\ NewCache("memory")

RegistryNext ==
  \/ RegistryGet
  \/ RegistryGetState
  \/ RegistryGetMetrics
  \/ RegistryReset
  \/ \E ok \in BOOLEAN : RegistryExecute(ok)
  \/ Tick

RegistrySpec == RegistryInit /\ [][RegistryNext]_vars

\* the breaker with no manual reset()
NextNoReset ==
  \/ ExecuteStart
  \/ \E c \in Admissions, v \in FnResults : SettleSuccess(c, v)
  \/ \E c \in Admissions, e \in FnErrors : SettleFailure(c, e)
  \/ Tick

SpecNoReset == Init /\ [][NextNoReset]_vars

\* the breaker under every trial quota the constructor accepts, zero included,
\* where every invoked wrapped function eventually settles
RecoveryInit ==
  /\ now = 0
  /\ NewModules
  /\ \E c \in [failureThreshold : Thresholds,
                resetTimeoutMs : ResetTimeouts,
                halfOpenMaxAttempts : QuotaLimits] : NewBreaker(c)
  /\ NewCache("memory")

FnSettles ==
  \/ \E c \in Admissions, v \in FnResults : SettleSuccess(c, v)
  \/ \E c \in Admissions, e \in FnErrors : SettleFailure(c, e)

RecoveryNext ==
  \/ ExecuteStart
  \/ FnSettles
  \/ Reset
  \/ Tick

RecoverySpec == RecoveryInit /\ [][RecoveryNext]_vars /\ WF_vars(FnSettles)

(***************************************************************************)
(* executeWithRetry(() => breaker.execute(fn)): the retry loop around the  *)
(* breaker, next to callers that use the breaker directly                  *)
(***************************************************************************)
\* the CircuitBreakerError execute throws for a refused admission
breakerError(a) ==
  IF a.secondsUntilRetry = HalfOpenRetrySeconds /\ a.cb.state = HALF_OPEN
  THEN TrialError
  ELSE OpenError(a.secondsUntilRetry)

\* `await fn()` of the retry loop in state r, fn being breaker.execute: the
\* admission checks run in the same turn, and a refusal is caught at once
guardedCall(r) ==
  IF r.phase # "calling"
  THEN /\ rt' = r
       /\ UNCHANGED <<cb, calls, event, hist>>
  ELSE LET a == admit(cb, now)
       IN /\ Admission(a)
          /\ rt' = IF a.invoked THEN r ELSE caught(r, breakerError(a))

GuardedStart(maxRetries, baseDelayMs) ==
  /\ rt.phase \in {"idle", "returned", "threw"}
  /\ guardedCall(retryLoop([NoRetryCall EXCEPT !.maxRetries = maxRetries,
                                               !.baseDelayMs = baseDelayMs], 1))
  /\ UNCHANGED <<now, cfg, cacheVars, factory, registry, lru>>

\* the wrapped function of the admitted call resolved: onSuccess(), and the
\* retry loop returns
GuardedFnResolve(c, v) ==
  /\ rt.phase = "calling"
  /\ calls[c] > 0
  /\ cb.successCount < MaxSuccess
  /\ cb' = onSuccess(cb, now)
  /\ calls' = [calls EXCEPT ![c] = @ - 1]
  /\ event' = Ev("settle", "returned", returned(v), Null, <<"resolved", v>>)
  /\ rt' = [rt EXCEPT !.phase = "returned", !.result = returned(v)]
  /\ UNCHANGED <<now, cfg, hist, cacheVars, factory, registry, lru>>

\* the wrapped function of the admitted call rejected: onFailure(), and the
\* retry loop catches the error execute rethrows
GuardedFnReject(c, error) ==
  /\ rt.phase = "calling"
  /\ calls[c] > 0
  /\ cb.failureCount < MaxFailures
  /\ cb' = onFailure(cb, now)
  /\ calls' = [calls EXCEPT ![c] = @ - 1]
  /\ event' = Ev("settle", "threw", "fn error", Null, <<"rejected", "fn error">>)
  /\ rt' = caught(rt, rethrown(error))
  /\ UNCHANGED <<now, cfg, hist, cacheVars, factory, registry, lru>>

\* the timer fires: attempt++, the loop test and the next call of fn
GuardedTimer ==
  /\ rt.phase = "waiting"
  /\ guardedCall(retryLoop([rt EXCEPT !.waits = Append(@, rt.delay), !.delay = 0],
                           rt.attempt + 1))
  /\ UNCHANGED <<now, cfg, cacheVars, factory, registry, lru>>

\* a call in flight that is not the one of the retry loop
OthersInFlight == InFlight > (IF rt.phase = "calling" THEN 1 ELSE 0)

GuardedInit ==
  /\ now = 0
  /\ NewModules
  /\ \E c \in [failureThreshold : GuardedThresholds,
                resetTimeoutMs : GuardedTimeouts,
                halfOpenMaxAttempts : GuardedLimits] : NewBreaker(c)
  /\ NewCache("memory")

GuardedNext ==
  \/ \E maxRetries \in 1..MaxAttempts, baseDelayMs \in GuardedDelays :
        GuardedStart(maxRetries, baseDelayMs)
  \/ \E c \in Admissions, v \in GuardedResults : GuardedFnResolve(c, v)
  \/ \E c \in Admissions, error \in GuardedErrors : GuardedFnReject(c, error)
  \/ GuardedTimer
  \/ ExecuteStart
  \/ \E c \in Admissions, v \in GuardedResults : OthersInFlight /\ SettleSuccess(c, v)
  \/ \E c \in Admissions, e \in {"e1"} : OthersInFlight /\ SettleFailure(c, e)
  \/ Tick

GuardedSpec == GuardedInit /\ [][GuardedNext]_vars

(***************************************************************************)
(* MemoryCache operations                                                  *)
(***************************************************************************)
\* MemoryCache.getWithRefresh up to its return or to `await refreshFn()`
MemGetWithRefresh(k, ttlMs, pct) ==
  /\ backend = "memory"
  /\ LET entry == cache[k]
         branch == lookup(entry, entry # NoEntry, now, ttlMs, pct)
         start == branch = "stale" /\ mayRefresh(refreshingKeys, k)
     IN /\ branch = "miss" => (misses < MaxCount /\ Room)
        /\ branch # "miss" => hits < MaxCount
        /\ start => Room
        /\ hits' = IF branch = "miss" THEN hits ELSE hits + 1
        /\ misses' = IF branch = "miss" THEN misses + 1 ELSE misses
        /\ cache' = IF branch = "miss" THEN [cache EXCEPT ![k] = NoEntry] ELSE cache
        /\ refreshingKeys' = IF start THEN refreshingKeys \cup {k} ELSE refreshingKeys
        /\ tasks' = IF branch = "miss" THEN Spawn(Task("miss", k, ttlMs, "none", Null))
                    ELSE IF start THEN Spawn(Task("bg", k, ttlMs, "none", Null))
                    ELSE tasks
        /\ cev' = CEv("getWithRefresh", k, ttlMs, pct, branch,
                      IF branch = "miss" THEN "none" ELSE entry.data,
                      branch = "miss" \/ start)
  /\ UNCHANGED <<now, redis, backend>>
  /\ UNCHANGED outsideCache

\* the background refreshFn() resolved: set(key, freshData, ttlMs), then
\* refreshingKeys.delete(key)
MemBgResolve(t, v) ==
  /\ backend = "memory" /\ t \in Pending /\ t.kind = "bg"
  /\ cache' = [cache EXCEPT ![t.key] = newEntry(v, now, t.ttlMs)]
  /\ refreshingKeys' = refreshingKeys \ {t.key}
  /\ tasks' = Finish(t)
  /\ cev' = CEv("bgSettle", t.key, t.ttlMs, 0, "stored", v, FALSE)
  /\ UNCHANGED <<now, redis, backend, hits, misses>>
  /\ UNCHANGED outsideCache

\* the background refreshFn() rejected: logged, then refreshingKeys.delete(key)
MemBgReject(t) ==
  /\ backend = "memory" /\ t \in Pending /\ t.kind = "bg"
  /\ refreshingKeys' = refreshingKeys \ {t.key}
  /\ tasks' = Finish(t)
  /\ cev' = CEv("bgSettle", t.key, t.ttlMs, 0, "logged", "none", FALSE)
  /\ UNCHANGED <<now, cache, redis, backend, hits, misses>>
  /\ UNCHANGED outsideCache

\* `await refreshFn()` of the miss path resolved: set, return freshData
MemMissResolve(t, v) ==
  /\ backend = "memory" /\ t \in Pending /\ t.kind = "miss"
  /\ cache' = [cache EXCEPT ![t.key] = newEntry(v, now, t.ttlMs)]
  /\ tasks' = Finish(t)
  /\ cev' = CEv("missSettle", t.key, t.ttlMs, 0, "returned", v, FALSE)
  /\ UNCHANGED <<now, redis, backend, hits, misses, refreshingKeys>>
  /\ UNCHANGED outsideCache

\* `await refreshFn()` of the miss path rejected: the error reaches the caller
MemMissReject(t, e) ==
  /\ backend = "memory" /\ t \in Pending /\ t.kind = "miss"
  /\ tasks' = Finish(t)
  /\ cev' = CEv("missSettle", t.key, t.ttlMs, 0, "threw", e, FALSE)
  /\ UNCHANGED <<now, cache, redis, backend, hits, misses, refreshingKeys>>
  /\ UNCHANGED outsideCache

\* set that keeps an entry already present
MemSetIfAbsent(k, v, ttlMs) ==
  /\ backend = "memory"
  /\ cache' = IF cache[k] = NoEntry THEN [cache EXCEPT ![k] = newEntry(v, now, ttlMs)]
              ELSE cache
  /\ cev' = CEv("set", k, ttlMs, 0, "none", v, FALSE)
  /\ UNCHANGED <<now, redis, backend, hits, misses, refreshingKeys, tasks>>
  /\ UNCHANGED outsideCache

\* MemoryCache.set
MemSet(k, v, ttlMs) ==
  /\ backend = "memory"
  /\ cache' = [cache EXCEPT ![k] = newEntry(v, now, ttlMs)]
  /\ cev' = CEv("set", k, ttlMs, 0, "none", v, FALSE)
  /\ UNCHANGED <<now, redis, backend, hits, misses, refreshingKeys, tasks>>
  /\ UNCHANGED outsideCache

\* MemoryCache.delete
MemDelete(k) ==
  /\ backend = "memory"
  /\ cache' = [cache EXCEPT ![k] = NoEntry]
  /\ cev' = CEv("delete", k, 0, 0, IF cache[k] # NoEntry THEN "true" ELSE "false",
                "none", FALSE)
  /\ UNCHANGED <<now, redis, backend, hits, misses, refreshingKeys, tasks>>
  /\ UNCHANGED outsideCache

\* the deadline itself taken as expired
expiredAtDeadline(entry, t) == t >= entry.expiresAt
\* Date.now() > entry.expiresAt
expired(entry, t) == t > entry.expiresAt

\* MemoryCache.get: the store it leaves, whether it counted a hit, and the
\* value it returns
get(store, k, t) ==
  IF store[k] = NoEntry THEN [store |-> store, hit |-> FALSE, value |-> "null"]
  ELSE IF expired(store[k], t)
       THEN [store |-> [store EXCEPT ![k] = NoEntry], hit |-> FALSE, value |-> "null"]
       ELSE [store |-> store, hit |-> TRUE, value |-> store[k].data]

\* MemoryCache.has: the store it leaves and the boolean it returns
has(store, k, t) ==
  IF store[k] = NoEntry THEN [store |-> store, value |-> FALSE]
  ELSE IF expired(store[k], t)
       THEN [store |-> [store EXCEPT ![k] = NoEntry], value |-> FALSE]
       ELSE [store |-> store, value |-> TRUE]

\* MemoryCache.clearExpired: the store it leaves and the number it returns
clearExpired(store, t) ==
  [store |-> [k \in Keys |-> IF store[k] # NoEntry /\ expired(store[k], t)
                             THEN NoEntry ELSE store[k]],
   cleared |-> Cardinality({k \in Keys : store[k] # NoEntry /\ expired(store[k], t)})]

\* MemoryCache.stats: clearExpired(), then size and keys of what is left
stats(store, t) ==
  LET left == clearExpired(store, t).store
  IN [store |-> left,
      size |-> Cardinality({k \in Keys : left[k] # NoEntry}),
      keys |-> {k \in Keys : left[k] # NoEntry}]

\* MemoryCache.get
MemGet(k) ==
  /\ backend = "memory"
  /\ LET r == get(cache, k, now)
     IN /\ IF r.hit THEN hits < MaxCount ELSE misses < MaxCount
        /\ cache' = r.store
        /\ hits' = IF r.hit THEN hits + 1 ELSE hits
        /\ misses' = IF r.hit THEN misses ELSE misses + 1
        /\ cev' = CEv("get", k, 0, 0, IF r.hit THEN "hit" ELSE "miss", r.value, FALSE)
  /\ UNCHANGED <<now, redis, backend, refreshingKeys, tasks>>
  /\ UNCHANGED outsideCache

\* MemoryCache.has
MemHas(k) ==
  /\ backend = "memory"
  /\ LET r == has(cache, k, now)
     IN /\ cache' = r.store
        /\ cev' = CEv("has", k, 0, 0, IF r.value THEN "true" ELSE "false", "none", FALSE)
  /\ UNCHANGED <<now, redis, backend, hits, misses, refreshingKeys, tasks>>
  /\ UNCHANGED outsideCache

\* MemoryCache.clear
MemClear ==
  /\ backend = "memory"
  /\ cache' = [k \in Keys |-> NoEntry]
  /\ hits' = 0
  /\ misses' = 0
  /\ cev' = CEv("clear", "none", 0, 0, "returned", "none", FALSE)
  /\ UNCHANGED <<now, redis, backend, refreshingKeys, tasks>>
  /\ UNCHANGED outsideCache

\* MemoryCache.clearExpired
MemClearExpired ==
  /\ backend = "memory"
  /\ cache' = clearExpired(cache, now).store
  /\ cev' = CEv("clearExpired", "none", 0, 0, "returned", "none", FALSE)
  /\ UNCHANGED <<now, redis, backend, hits, misses, refreshingKeys, tasks>>
  /\ UNCHANGED outsideCache

\* MemoryCache.stats
MemStats ==
  /\ backend = "memory"
  /\ cache' = stats(cache, now).store
  /\ cev' = CEv("stats", "none", 0, 0, "returned", "none", FALSE)
  /\ UNCHANGED <<now, redis, backend, hits, misses, refreshingKeys, tasks>>
  /\ UNCHANGED outsideCache

(***************************************************************************)
(* RedisCache operations                                                   *)
(***************************************************************************)
\* RedisCache.getWithRefresh up to `await this.client.get(prefixedKey)`
RedisGetWithRefresh(k, ttlMs, pct) ==
  /\ backend = "redis" /\ Room
  /\ tasks' = Spawn(Task("get", k, ttlMs, "none", pct))
  /\ cev' = CEv("getWithRefresh", k, ttlMs, pct, "awaiting", "none", FALSE)
  /\ UNCHANGED <<now, cache, redis, backend, hits, misses, refreshingKeys>>
  /\ UNCHANGED outsideCache

\* client.get answered: the fresh / stale / miss branches of getWithRefresh
RedisGetReply(t) ==
  /\ backend = "redis" /\ t \in Pending /\ t.kind = "get"
  /\ LET raw == clientGet(t.key, now)
         entry == IF raw # <<>> THEN jsonParse(raw) ELSE NoEntry
         pct == t.at
         branch == lookup(entry, raw # <<>>, now, t.ttlMs, pct)
         start == branch = "stale" /\ mayRefresh(refreshingKeys, t.key)
     IN /\ branch = "miss" => misses < MaxCount
        /\ branch # "miss" => hits < MaxCount
        /\ start => Room
        /\ hits' = IF branch = "miss" THEN hits ELSE hits + 1
        /\ misses' = IF branch = "miss" THEN misses + 1 ELSE misses
        /\ refreshingKeys' = IF start THEN refreshingKeys \cup {t.key} ELSE refreshingKeys
        /\ tasks' = IF branch = "miss"
                    THEN Finish(t) (+) SetToBag({Task("miss", t.key, t.ttlMs, "none", Null)})
                    ELSE IF start
                         THEN Finish(t) (+) SetToBag({Task("bg", t.key, t.ttlMs, "none", Null)})
                         ELSE Finish(t)
        /\ cev' = CEv("getReply", t.key, t.ttlMs, pct, branch,
                      IF branch = "miss" THEN "none" ELSE entry.data,
                      branch = "miss" \/ start)
  /\ UNCHANGED <<now, cache, redis, backend>>
  /\ UNCHANGED outsideCache

\* the catch block rethrowing instead of falling back
RedisGetErrorThrows(t) ==
  /\ backend = "redis" /\ t \in Pending /\ t.kind = "get"
  /\ tasks' = Finish(t)
  /\ cev' = CEv("getReply", t.key, t.ttlMs, t.at, "threw", "none", FALSE)
  /\ UNCHANGED <<now, cache, redis, backend, hits, misses, refreshingKeys>>
  /\ UNCHANGED outsideCache

\* client.get failed: the catch block counts a miss and calls refreshFn
RedisGetError(t) ==
  /\ backend = "redis" /\ t \in Pending /\ t.kind = "get"
  /\ misses < MaxCount
  /\ misses' = misses + 1
  /\ tasks' = Finish(t) (+) SetToBag({Task("fallback", t.key, t.ttlMs, "none", Null)})
  /\ cev' = CEv("getReply", t.key, t.ttlMs, t.at, "error", "none", TRUE)
  /\ UNCHANGED <<now, cache, redis, backend, hits, refreshingKeys>>
  /\ UNCHANGED outsideCache

\* `await refreshFn()` of the miss path resolved: `await this.set(...)`, which
\* builds the entry and sends it (the server applies the SET, or it fails and
\* set() logs it)
RedisMissResolve(t, v, ok) ==
  /\ backend = "redis" /\ t \in Pending /\ t.kind = "miss"
  /\ redis' = clientSet(t.key, newEntry(v, now, t.ttlMs), now, t.ttlMs, ok)
  /\ tasks' = Finish(t) (+) SetToBag({Task("missSet", t.key, t.ttlMs, v, Null)})
  /\ cev' = CEv("missSettle", t.key, t.ttlMs, 0, "setting", v, FALSE)
  /\ UNCHANGED <<now, cache, backend, hits, misses, refreshingKeys>>
  /\ UNCHANGED outsideCache

\* `await refreshFn()` of the miss path rejected inside the try block: the
\* catch block counts a miss and calls refreshFn again
RedisMissReject(t, e) ==
  /\ backend = "redis" /\ t \in Pending /\ t.kind = "miss"
  /\ misses < MaxCount
  /\ misses' = misses + 1
  /\ tasks' = Finish(t) (+) SetToBag({Task("fallback", t.key, t.ttlMs, "none", Null)})
  /\ cev' = CEv("missSettle", t.key, t.ttlMs, 0, "caught", e, TRUE)
  /\ UNCHANGED <<now, cache, redis, backend, hits, refreshingKeys>>
  /\ UNCHANGED outsideCache

\* refreshFn() of the catch block resolved: set() is started and not awaited,
\* freshData is returned
RedisFallbackResolve(t, v, ok) ==
  /\ backend = "redis" /\ t \in Pending /\ t.kind = "fallback"
  /\ redis' = clientSet(t.key, newEntry(v, now, t.ttlMs), now, t.ttlMs, ok)
  /\ tasks' = Finish(t)
  /\ cev' = CEv("fallbackSettle", t.key, t.ttlMs, 0, "returned", v, FALSE)
  /\ UNCHANGED <<now, cache, backend, hits, misses, refreshingKeys>>
  /\ UNCHANGED outsideCache

\* refreshFn() of the catch block rejected: the error reaches the caller
RedisFallbackReject(t, e) ==
  /\ backend = "redis" /\ t \in Pending /\ t.kind = "fallback"
  /\ tasks' = Finish(t)
  /\ cev' = CEv("fallbackSettle", t.key, t.ttlMs, 0, "threw", e, FALSE)
  /\ UNCHANGED <<now, cache, redis, backend, hits, misses, refreshingKeys>>
  /\ UNCHANGED outsideCache

\* the background refreshFn() resolved: this.set(key, freshData, ttlMs)
RedisBgResolve(t, v, ok) ==
  /\ backend = "redis" /\ t \in Pending /\ t.kind = "bg"
  /\ redis' = clientSet(t.key, newEntry(v, now, t.ttlMs), now, t.ttlMs, ok)
  /\ tasks' = Finish(t) (+) SetToBag({Task("bgSet", t.key, t.ttlMs, "none", Null)})
  /\ cev' = CEv("bgSettle", t.key, t.ttlMs, 0, "setting", v, FALSE)
  /\ UNCHANGED <<now, cache, backend, hits, misses, refreshingKeys>>
  /\ UNCHANGED outsideCache

\* the background refreshFn() rejected: logged, then refreshingKeys.delete(key)
RedisBgReject(t) ==
  /\ backend = "redis" /\ t \in Pending /\ t.kind = "bg"
  /\ refreshingKeys' = refreshingKeys \ {t.key}
  /\ tasks' = Finish(t)
  /\ cev' = CEv("bgSettle", t.key, t.ttlMs, 0, "logged", "none", FALSE)
  /\ UNCHANGED <<now, cache, redis, backend, hits, misses>>
  /\ UNCHANGED outsideCache

\* `await this.set(...)` of the miss path resumed: return freshData
RedisMissSetDone(t) ==
  /\ backend = "redis" /\ t \in Pending /\ t.kind = "missSet"
  /\ tasks' = Finish(t)
  /\ cev' = CEv("missSettle", t.key, t.ttlMs, 0, "returned", t.value, FALSE)
  /\ UNCHANGED <<now, cache, redis, backend, hits, misses, refreshingKeys>>
  /\ UNCHANGED outsideCache

\* the .finally handler left out
RedisBgSetDoneKeepsKey(t) ==
  /\ backend = "redis" /\ t \in Pending /\ t.kind = "bgSet"
  /\ tasks' = Finish(t)
  /\ cev' = CEv("bgSettle", t.key, t.ttlMs, 0, "done", "none", FALSE)
  /\ UNCHANGED <<now, cache, redis, backend, hits, misses, refreshingKeys>>
  /\ UNCHANGED outsideCache

\* this.set(...) of the background refresh settled: refreshingKeys.delete(key)
RedisBgSetDone(t) ==
  /\ backend = "redis" /\ t \in Pending /\ t.kind = "bgSet"
  /\ refreshingKeys' = refreshingKeys \ {t.key}
  /\ tasks' = Finish(t)
  /\ cev' = CEv("bgSettle", t.key, t.ttlMs, 0, "done", "none", FALSE)
  /\ UNCHANGED <<now, cache, redis, backend, hits, misses>>
  /\ UNCHANGED outsideCache

\* RedisCache.get from the answer of client.get on: a failed command is
\* caught and counted as a miss; an entry past its expiresAt is deleted with
\* `await client.del` before the miss is counted
RedisGet(k, ok, okDel) ==
  /\ backend = "redis"
  /\ LET raw == clientGet(k, now)
         entry == IF raw # <<>> THEN jsonParse(raw) ELSE NoEntry
         branch == IF ~ok THEN "error"
                   ELSE IF raw = <<>> THEN "miss"
                   ELSE IF expired(entry, now) THEN "expired"
                   ELSE "hit"
     IN /\ branch = "hit" => hits < MaxCount
        /\ branch \in {"miss", "error"} => misses < MaxCount
        /\ branch = "expired" => Room
        /\ hits' = IF branch = "hit" THEN hits + 1 ELSE hits
        /\ misses' = IF branch \in {"miss", "error"} THEN misses + 1 ELSE misses
        /\ redis' = IF branch = "expired" THEN clientDel({k}, okDel) ELSE redis
        /\ tasks' = IF branch = "expired" THEN Spawn(Task("getDel", k, 0, "none", Null))
                    ELSE tasks
        /\ cev' = CEv("get", k, 0, 0, branch,
                      IF branch = "hit" THEN entry.data
                      ELSE IF branch = "expired"
                           THEN (IF okDel THEN "deleted" ELSE "notDeleted")
                           ELSE "null", FALSE)
  /\ UNCHANGED <<now, cache, backend, refreshingKeys>>
  /\ UNCHANGED outsideCache

\* `await client.del` of get settled (resolved, or rejected into the catch
\* block): the miss is counted and null returned
RedisGetDelDone(t) ==
  /\ backend = "redis" /\ t \in Pending /\ t.kind = "getDel"
  /\ misses < MaxCount
  /\ misses' = misses + 1
  /\ tasks' = Finish(t)
  /\ cev' = CEv("get", t.key, 0, 0, "miss", "null", FALSE)
  /\ UNCHANGED <<now, cache, redis, backend, hits, refreshingKeys>>
  /\ UNCHANGED outsideCache

\* RedisCache.set: the entry is built at Date.now(); the server applies the
\* SET after `lag` (it rejects PX <= 0), or the command fails and set() logs it
RedisSet(k, v, ttlMs, lag, ok) ==
  /\ backend = "redis"
  /\ ok => ttlMs > 0
  /\ redis' = clientSet(k, newEntry(v, now, ttlMs), now + lag, ttlMs, ok)
  /\ cev' = CEv("set", k, ttlMs, 0, IF ok THEN "stored" ELSE "logged", v, FALSE)
  /\ UNCHANGED <<now, cache, backend, hits, misses, refreshingKeys, tasks>>
  /\ UNCHANGED outsideCache

\* RedisCache.has
RedisHas(k, ok) ==
  /\ backend = "redis"
  /\ cev' = CEv("has", k, 0, 0,
                IF ~ok THEN "error" ELSE IF clientExists(k, now) THEN "true" ELSE "false",
                "none", FALSE)
  /\ UNCHANGED <<now, cache, redis, backend, hits, misses, refreshingKeys, tasks>>
  /\ UNCHANGED outsideCache

\* RedisCache.delete
RedisDelete(k, ok) ==
  /\ backend = "redis"
  /\ redis' = clientDel({k}, ok)
  /\ cev' = CEv("delete", k, 0, 0,
                IF ok /\ clientExists(k, now) THEN "true" ELSE "false", "none", FALSE)
  /\ UNCHANGED <<now, cache, backend, hits, misses, refreshingKeys, tasks>>
  /\ UNCHANGED outsideCache

\* RedisCache.clear from the answer of client.keys on: with keys to delete it
\* awaits client.del; a failed command leaves the try block before the
\* counters are reset
RedisClear(okKeys, okDel) ==
  /\ backend = "redis"
  /\ LET keys == clientKeys(now)
         branch == IF ~okKeys THEN "logged"
                   ELSE IF keys = {} THEN "returned"
                   ELSE IF okDel THEN "deleting" ELSE "logged"
     IN /\ branch = "deleting" => Room
        /\ redis' = IF okKeys /\ keys # {} THEN clientDel(keys, okDel) ELSE redis
        /\ hits' = IF branch = "returned" THEN 0 ELSE hits
        /\ misses' = IF branch = "returned" THEN 0 ELSE misses
        /\ tasks' = IF branch = "deleting" THEN Spawn(Task("clearDel", "none", 0, "none", Null))
                    ELSE tasks
        /\ cev' = CEv("clear", "none", 0, 0, branch, "none", FALSE)
  /\ UNCHANGED <<now, cache, backend, refreshingKeys>>
  /\ UNCHANGED outsideCache

\* `await client.del(...keys)` of clear resolved: hits = 0, misses = 0
RedisClearDone(t) ==
  /\ backend = "redis" /\ t \in Pending /\ t.kind = "clearDel"
  /\ hits' = 0
  /\ misses' = 0
  /\ tasks' = Finish(t)
  /\ cev' = CEv("clear", "none", 0, 0, "returned", "none", FALSE)
  /\ UNCHANGED <<now, cache, redis, backend, refreshingKeys>>
  /\ UNCHANGED outsideCache

\* RedisCache.stats
RedisStats(ok) ==
  /\ backend = "redis"
  /\ cev' = CEv("stats", "none", 0, 0, IF ok THEN "returned" ELSE "logged", "none", FALSE)
  /\ UNCHANGED <<now, cache, redis, backend, hits, misses, refreshingKeys, tasks>>
  /\ UNCHANGED outsideCache

(***************************************************************************)
(* Operations common to both providers                                     *)
(***************************************************************************)
\* Number arithmetic of getMetrics.  A positive double is a significand of
\* SigBits bits (most significant first, leading bit 1) times 2^exp.  Long
\* numbers are handled LimbBits bits at a time.
Limb == 2^LimbBits

\* the limbs written out as bits
limbsToBits(limbs) ==
  [i \in 1..(Len(limbs) * LimbBits) |->
     (limbs[((i - 1) \div LimbBits) + 1] \div 2^(LimbBits - 1 - ((i - 1) % LimbBits))) % 2]

RECURSIVE bitsToInt(_)
bitsToInt(bits) ==
  IF bits = <<>> THEN 0
  ELSE 2 * bitsToInt(SubSeq(bits, 1, Len(bits) - 1)) + bits[Len(bits)]

\* the bits (padded with leading zeros) cut into limbs
bitsToLimbs(bits) ==
  LET n == (Len(bits) + LimbBits - 1) \div LimbBits
      padded == [i \in 1..(n * LimbBits - Len(bits)) |-> 0] \o bits
  IN [j \in 1..n |-> bitsToInt(SubSeq(padded, (j - 1) * LimbBits + 1, j * LimbBits))]

\* the bit string without its leading zeros
stripZeros(bits) ==
  IF \A i \in 1..Len(bits) : bits[i] = 0 THEN <<>>
  ELSE LET first == CHOOSE i \in 1..Len(bits) :
                      bits[i] = 1 /\ \A j \in 1..(i - 1) : bits[j] = 0
       IN SubSeq(bits, first, Len(bits))

RECURSIVE divLimbs(_, _, _, _)
\* limbs, followed by n further quotient limbs of r / d (r < d), and the
\* remainder left
divLimbs(r, d, n, limbs) ==
  IF n = 0 THEN [limbs |-> limbs, rem |-> r]
  ELSE divLimbs((r * Limb) % d, d, n - 1, Append(limbs, (r * Limb) \div d))

RECURSIVE mulLimbs(_, _, _)
\* the limbs times the small integer m, plus carry
mulLimbs(limbs, m, carry) ==
  IF limbs = <<>> THEN <<carry>>
  ELSE LET v == limbs[Len(limbs)] * m + carry
       IN mulLimbs(SubSeq(limbs, 1, Len(limbs) - 1), m, v \div Limb) \o <<v % Limb>>

\* the bit string plus one
incBits(bits) ==
  IF \A i \in 1..Len(bits) : bits[i] = 1
  THEN <<1>> \o [i \in 1..Len(bits) |-> 0]
  ELSE LET last == CHOOSE i \in 1..Len(bits) :
                     bits[i] = 0 /\ \A j \in (i + 1)..Len(bits) : bits[j] = 1
       IN [i \in 1..Len(bits) |-> IF i < last THEN bits[i] ELSE IF i = last THEN 1 ELSE 0]

\* the double nearest to bits * 2^exp (+ a nonzero rest below the last bit
\* when sticky), ties to even: the rounding of every Number operation
roundToDouble(bits, sticky, exp) ==
  LET keep == SubSeq(bits, 1, SigBits)
      guard == bits[SigBits + 1]
      tail == sticky \/ \E i \in (SigBits + 2)..Len(bits) : bits[i] = 1
      up == guard = 1 /\ (tail \/ keep[SigBits] = 1)
      raised == IF up THEN incBits(keep) ELSE keep
  IN IF Len(raised) > SigBits
     THEN [sig |-> SubSeq(raised, 1, SigBits), exp |-> exp + Len(bits) - SigBits + 1]
     ELSE [sig |-> raised, exp |-> exp + Len(bits) - SigBits]

\* this.hits / total for 0 < hits < total
fdiv(h, total) ==
  LET s == CHOOSE s \in 1..30 : h * 2^s >= total /\ h * 2^(s - 1) < total
      d == divLimbs(h * 2^s - total, total, QuotientLimbs, <<>>)
  IN roundToDouble(<<1>> \o limbsToBits(d.limbs), d.rem # 0,
                   0 - s - QuotientLimbs * LimbBits)

\* x * m for a small integer m
fmul(x, m) ==
  roundToDouble(stripZeros(limbsToBits(mulLimbs(bitsToLimbs(x.sig), m, 0))), FALSE, x.exp)

\* Math.round(x) for 0 < x < 2^SigBits: the nearest integer, halves upwards
mathRound(x) ==
  LET n == SigBits + x.exp
  IN IF n < 0 THEN 0
     ELSE IF n >= SigBits THEN bitsToInt(x.sig) * 2^(n - SigBits)
     ELSE bitsToInt(SubSeq(x.sig, 1, n)) + x.sig[n + 1]

\* total > 0 ? Math.round((this.hits / total) * 100) : 0
hitRate(h, m) ==
  LET total == h + m
  IN IF total > 0
     THEN (IF h = 0 THEN 0
           ELSE IF h = total THEN 100
           ELSE mathRound(fmul(fdiv(h, total), 100)))
     ELSE 0

\* getMetrics (the same code in both providers); the hitRate it returns is
\* recorded in the pct field of the event
CacheGetMetrics ==
  /\ cev' = CEv("getMetrics", "none", 0, hitRate(hits, misses), "returned", "none", FALSE)
  /\ UNCHANGED <<now, cache, redis, backend, hits, misses, refreshingKeys, tasks>>
  /\ UNCHANGED outsideCache

\* resetMetrics
CacheResetMetrics ==
  /\ hits' = 0
  /\ misses' = 0
  /\ cev' = CEv("resetMetrics", "none", 0, 0, "returned", "none", FALSE)
  /\ UNCHANGED <<now, cache, redis, backend, refreshingKeys, tasks>>
  /\ UNCHANGED outsideCache

CacheTick ==
  /\ now + TickMs <= MaxTicks * TickMs
  /\ now' = now + TickMs
  /\ cev' = CEv("tick", "none", 0, 0, "none", "none", FALSE)
  /\ UNCHANGED <<backend, cache, redis, hits, misses, refreshingKeys, tasks>>
  /\ UNCHANGED outsideCache

(***************************************************************************)
(* MemoryCache over its LRUCache: the operations                           *)
(***************************************************************************)
Without(order, k) == SelectSeq(order, LAMBDA x : x # k)
lruHas(c, k) == c.entry[k] # NoEntry
\* LRUCache.get with the recency left as it is (LRUCache.peek)
lruPeek(c, k) == c
\* LRUCache.get: the key becomes the most recently used
lruGet(c, k) ==
  IF lruHas(c, k) THEN [c EXCEPT !.order = Append(Without(c.order, k), k)] ELSE c
\* LRUCache.delete
lruDelete(c, k) ==
  [c EXCEPT !.order = Without(c.order, k), !.entry[k] = NoEntry]
\* LRUCache.set evicting the most recently used key
lruSetEvictsNewest(c, k, e) ==
  IF lruHas(c, k)
  THEN [c EXCEPT !.order = Append(Without(c.order, k), k), !.entry[k] = e]
  ELSE LET c1 == IF Len(c.order) >= c.max THEN lruDelete(c, c.order[Len(c.order)]) ELSE c
       IN [c1 EXCEPT !.order = Append(c1.order, k), !.entry[k] = e]
\* LRUCache.set: the key becomes the most recently used; a new key at
\* capacity evicts the least recently used one
lruSet(c, k, e) ==
  IF lruHas(c, k)
  THEN [c EXCEPT !.order = Append(Without(c.order, k), k), !.entry[k] = e]
  ELSE LET c1 == IF Len(c.order) >= c.max THEN lruDelete(c, Head(c.order)) ELSE c
       IN [c1 EXCEPT !.order = Append(c1.order, k), !.entry[k] = e]

\* MemoryCache.set
LruSet(k, v, ttlMs) ==
  /\ lru' = lruSet(lru, k, newEntry(v, now, ttlMs))
  /\ cev' = CEv("set", k, ttlMs, 0, "none", v, FALSE)
  /\ UNCHANGED <<now, cache, redis, backend, hits, misses, refreshingKeys, tasks>>
  /\ UNCHANGED <<breakerVars, rt, factory, registry>>

\* MemoryCache.get
LruGet(k) ==
  /\ LET c == lruGet(lru, k)
         entry == c.entry[k]
         hit == entry # NoEntry /\ ~expired(entry, now)
     IN /\ IF hit THEN hits < MaxCount ELSE misses < MaxCount
        /\ lru' = IF entry # NoEntry /\ expired(entry, now) THEN lruDelete(c, k) ELSE c
        /\ hits' = IF hit THEN hits + 1 ELSE hits
        /\ misses' = IF hit THEN misses ELSE misses + 1
        /\ cev' = CEv("get", k, 0, 0, IF hit THEN "hit" ELSE "miss",
                      IF hit THEN entry.data ELSE "null", FALSE)
  /\ UNCHANGED <<now, cache, redis, backend, refreshingKeys, tasks>>
  /\ UNCHANGED <<breakerVars, rt, factory, registry>>

\* MemoryCache.has
LruHas(k) ==
  /\ LET c == lruGet(lru, k)
         entry == c.entry[k]
         live == entry # NoEntry /\ ~expired(entry, now)
     IN /\ lru' = IF entry # NoEntry /\ expired(entry, now) THEN lruDelete(c, k) ELSE c
        /\ cev' = CEv("has", k, 0, 0, IF live THEN "true" ELSE "false", "none", FALSE)
  /\ UNCHANGED <<now, cache, redis, backend, hits, misses, refreshingKeys, tasks>>
  /\ UNCHANGED <<breakerVars, rt, factory, registry>>

\* MemoryCache.delete
LruDelete(k) ==
  /\ lru' = lruDelete(lru, k)
  /\ cev' = CEv("delete", k, 0, 0, IF lruHas(lru, k) THEN "true" ELSE "false",
                "none", FALSE)
  /\ UNCHANGED <<now, cache, redis, backend, hits, misses, refreshingKeys, tasks>>
  /\ UNCHANGED <<breakerVars, rt, factory, registry>>

\* MemoryCache.getWithRefresh up to its return or its `await refreshFn()`
LruGetWithRefresh(k, ttlMs, pct) ==
  /\ LET c == lruGet(lru, k)
         entry == c.entry[k]
         branch == lookup(entry, entry # NoEntry, now, ttlMs, pct)
         start == branch = "stale" /\ mayRefresh(refreshingKeys, k)
     IN /\ branch = "miss" => (misses < MaxCount /\ Room)
        /\ branch # "miss" => hits < MaxCount
        /\ start => Room
        /\ hits' = IF branch = "miss" THEN hits ELSE hits + 1
        /\ misses' = IF branch = "miss" THEN misses + 1 ELSE misses
        /\ lru' = IF branch = "miss" /\ entry # NoEntry THEN lruDelete(c, k) ELSE c
        /\ refreshingKeys' = IF start THEN refreshingKeys \cup {k} ELSE refreshingKeys
        /\ tasks' = IF branch = "miss" THEN Spawn(Task("miss", k, ttlMs, "none", Null))
                    ELSE IF start THEN Spawn(Task("bg", k, ttlMs, "none", Null))
                    ELSE tasks
        /\ cev' = CEv("getWithRefresh", k, ttlMs, pct, branch,
                      IF branch = "miss" THEN "none" ELSE entry.data,
                      branch = "miss" \/ start)
  /\ UNCHANGED <<now, cache, redis, backend>>
  /\ UNCHANGED <<breakerVars, rt, factory, registry>>

\* the background refreshFn() resolved: set(key, freshData, ttlMs), then
\* refreshingKeys.delete(key)
LruBgResolve(t, v) ==
  /\ t \in Pending /\ t.kind = "bg"
  /\ lru' = lruSet(lru, t.key, newEntry(v, now, t.ttlMs))
  /\ refreshingKeys' = refreshingKeys \ {t.key}
  /\ tasks' = Finish(t)
  /\ cev' = CEv("bgSettle", t.key, t.ttlMs, 0, "stored", v, FALSE)
  /\ UNCHANGED <<now, cache, redis, backend, hits, misses>>
  /\ UNCHANGED <<breakerVars, rt, factory, registry>>

\* the background refreshFn() rejected: logged, then refreshingKeys.delete(key)
LruBgReject(t) ==
  /\ t \in Pending /\ t.kind = "bg"
  /\ refreshingKeys' = refreshingKeys \ {t.key}
  /\ tasks' = Finish(t)
  /\ cev' = CEv("bgSettle", t.key, t.ttlMs, 0, "logged", "none", FALSE)
  /\ UNCHANGED <<now, cache, redis, backend, hits, misses, lru>>
  /\ UNCHANGED <<breakerVars, rt, factory, registry>>

\* `await refreshFn()` of the miss path resolved: set, return freshData
LruMissResolve(t, v) ==
  /\ t \in Pending /\ t.kind = "miss"
  /\ lru' = lruSet(lru, t.key, newEntry(v, now, t.ttlMs))
  /\ tasks' = Finish(t)
  /\ cev' = CEv("missSettle", t.key, t.ttlMs, 0, "returned", v, FALSE)
  /\ UNCHANGED <<now, cache, redis, backend, hits, misses, refreshingKeys>>
  /\ UNCHANGED <<breakerVars, rt, factory, registry>>

\* `await refreshFn()` of the miss path rejected: the error reaches the caller
LruMissReject(t, e) ==
  /\ t \in Pending /\ t.kind = "miss"
  /\ tasks' = Finish(t)
  /\ cev' = CEv("missSettle", t.key, t.ttlMs, 0, "threw", e, FALSE)
  /\ UNCHANGED <<now, cache, redis, backend, hits, misses, refreshingKeys, lru>>
  /\ UNCHANGED <<breakerVars, rt, factory, registry>>

LruInit ==
  /\ now = 0
  /\ NewBreaker(DefaultConfig)
  /\ NewCache("memory")
  /\ NewModules

LruNext ==
  \/ \E k \in LruKeys, ttlMs \in LruTtls : LruSet(k, "r1", ttlMs)
  \/ \E k \in LruKeys : LruGet(k)
  \/ \E k \in LruKeys : LruHas(k)
  \/ \E k \in LruKeys : LruDelete(k)
  \/ \E k \in LruRefreshKeys, pct \in LruPercents : LruGetWithRefresh(k, 800, pct)
  \/ \E t \in Pending : LruBgResolve(t, "r1")
  \/ \E t \in Pending : LruBgReject(t)
  \/ \E t \in Pending : LruMissResolve(t, "r1")
  \/ \E t \in Pending : LruMissReject(t, "e1")

LruSpec == LruInit /\ [][LruNext]_vars

CacheInit ==
  /\ now = 0
  /\ NewModules
  /\ NewBreaker(DefaultConfig)
  /\ \E b \in {"memory", "redis"} : NewCache(b)

CacheNext ==
  \/ \E k \in Keys, ttlMs \in CacheTtls, pct \in Percents : MemGetWithRefresh(k, ttlMs, pct)
  \/ \E t \in Pending, v \in FnResults : MemBgResolve(t, v)
  \/ \E t \in Pending : MemBgReject(t)
  \/ \E t \in Pending, v \in FnResults : MemMissResolve(t, v)
  \/ \E t \in Pending, e \in FnErrors : MemMissReject(t, e)
  \/ \E k \in Keys, v \in FnResults, ttlMs \in CacheTtls : MemSet(k, v, ttlMs)
  \/ \E k \in Keys : MemDelete(k)
  \/ \E k \in Keys, ttlMs \in CacheTtls, pct \in Percents : RedisGetWithRefresh(k, ttlMs, pct)
  \/ \E t \in Pending : RedisGetReply(t)
  \/ \E t \in Pending : RedisGetError(t)
  \/ \E t \in Pending, v \in FnResults, ok \in BOOLEAN : RedisMissResolve(t, v, ok)
  \/ \E t \in Pending, e \in FnErrors : RedisMissReject(t, e)
  \/ \E t \in Pending, v \in FnResults, ok \in BOOLEAN : RedisFallbackResolve(t, v, ok)
  \/ \E t \in Pending, e \in FnErrors : RedisFallbackReject(t, e)
  \/ \E t \in Pending, v \in FnResults, ok \in BOOLEAN : RedisBgResolve(t, v, ok)
  \/ \E t \in Pending : RedisBgReject(t)
  \/ \E t \in Pending : RedisMissSetDone(t)
  \/ \E t \in Pending : RedisBgSetDone(t)
  \/ CacheTick

CacheSpec == CacheInit /\ [][CacheNext]_vars

\* the providers under their plain operations: get, set, has, delete, clear,
\* clearExpired, stats, resetMetrics
StoreNext ==
  \/ \E k \in Keys : MemGet(k)
  \/ \E k \in Keys, v \in FnResults, ttlMs \in StoreTtls : MemSet(k, v, ttlMs)
  \/ \E k \in Keys : MemHas(k)
  \/ \E k \in Keys : MemDelete(k)
  \/ MemClear
  \/ MemClearExpired
  \/ MemStats
  \/ \E k \in Keys, ok \in BOOLEAN, okDel \in BOOLEAN : RedisGet(k, ok, okDel)
  \/ \E t \in Pending : RedisGetDelDone(t)
  \/ \E k \in Keys, v \in FnResults, ttlMs \in StoreTtls, lag \in Lags, ok \in BOOLEAN :
        RedisSet(k, v, ttlMs, lag, ok)
  \/ \E k \in Keys, ok \in BOOLEAN : RedisHas(k, ok)
  \/ \E k \in Keys, ok \in BOOLEAN : RedisDelete(k, ok)
  \/ \E okKeys \in BOOLEAN, okDel \in BOOLEAN : RedisClear(okKeys, okDel)
  \/ \E t \in Pending : RedisClearDone(t)
  \/ \E ok \in BOOLEAN : RedisStats(ok)
  \/ CacheResetMetrics
  \/ CacheTick

StoreSpec == CacheInit /\ [][StoreNext]_vars

\* RedisCache under get, getWithRefresh and the set calls whose SET command
\* fails; the entries of the store are those getWithRefresh writes
RedisInit ==
  /\ now = 0
  /\ NewModules
  /\ NewBreaker(DefaultConfig)
  /\ NewCache("redis")

RedisNext ==
  \/ \E k \in Keys, ok \in BOOLEAN, okDel \in BOOLEAN : RedisGet(k, ok, okDel)
  \/ \E k \in Keys, v \in FnResults, ttlMs \in CacheTtls : RedisSet(k, v, ttlMs, 0, FALSE)
  \/ \E k \in Keys, ttlMs \in CacheTtls, pct \in Percents : RedisGetWithRefresh(k, ttlMs, pct)
  \/ \E t \in Pending : RedisGetReply(t)
  \/ \E t \in Pending : RedisGetError(t)
  \/ \E t \in Pending, v \in FnResults, ok \in BOOLEAN : RedisMissResolve(t, v, ok)
  \/ \E t \in Pending, e \in FnErrors : RedisMissReject(t, e)
  \/ \E t \in Pending, v \in FnResults, ok \in BOOLEAN : RedisFallbackResolve(t, v, ok)
  \/ \E t \in Pending, e \in FnErrors : RedisFallbackReject(t, e)
  \/ \E t \in Pending, v \in FnResults, ok \in BOOLEAN : RedisBgResolve(t, v, ok)
  \/ \E t \in Pending : RedisBgReject(t)
  \/ \E t \in Pending : RedisMissSetDone(t)
  \/ \E t \in Pending : RedisBgSetDone(t)
  \/ CacheTick

RedisSpec == RedisInit /\ [][RedisNext]_vars

\* getWithRefresh called with a ttlMs and a refreshThresholdPercent that need
\* not match the ttlMs the entry was stored with
SwrStoredTtls == {400}
SwrTtls == {400, 1200}
SwrPercents == {50, 150}

SwrNext ==
  \/ \E k \in Keys, ttlMs \in SwrStoredTtls : MemSet(k, "r1", ttlMs)
  \/ \E k \in Keys, ttlMs \in SwrTtls, pct \in SwrPercents : MemGetWithRefresh(k, ttlMs, pct)
  \/ \E t \in Pending, v \in FnResults : MemBgResolve(t, v)
  \/ \E t \in Pending : MemBgReject(t)
  \/ \E t \in Pending, v \in FnResults : MemMissResolve(t, v)
  \/ \E t \in Pending, e \in FnErrors : MemMissReject(t, e)
  \/ \E k \in Keys, ttlMs \in SwrStoredTtls, ok \in BOOLEAN : RedisSet(k, "r1", ttlMs, 0, ok)
  \/ \E k \in Keys, ttlMs \in SwrTtls, pct \in SwrPercents : RedisGetWithRefresh(k, ttlMs, pct)
  \/ \E t \in Pending : RedisGetReply(t)
  \/ \E t \in Pending : RedisGetError(t)
  \/ \E t \in Pending, v \in FnResults, ok \in BOOLEAN : RedisMissResolve(t, v, ok)
  \/ \E t \in Pending, e \in FnErrors : RedisMissReject(t, e)
  \/ \E t \in Pending, v \in FnResults, ok \in BOOLEAN : RedisFallbackResolve(t, v, ok)
  \/ \E t \in Pending, e \in FnErrors : RedisFallbackReject(t, e)
  \/ \E t \in Pending, v \in FnResults, ok \in BOOLEAN : RedisBgResolve(t, v, ok)
  \/ \E t \in Pending : RedisBgReject(t)
  \/ \E t \in Pending : RedisMissSetDone(t)
  \/ \E t \in Pending : RedisBgSetDone(t)
  \/ CacheTick

SwrSpec == CacheInit /\ [][SwrNext]_vars

\* the two read paths of one MemoryCache: get and getWithRefresh
ValidityInit ==
  /\ now = 0
  /\ NewModules
  /\ NewBreaker(DefaultConfig)
  /\ NewCache("memory")

ValidityNext ==
  \/ \E k \in Keys, v \in FnResults, ttlMs \in CacheTtls : MemSet(k, v, ttlMs)
  \/ \E k \in Keys : MemGet(k)
  \/ \E k \in Keys, ttlMs \in CacheTtls, pct \in Percents : MemGetWithRefresh(k, ttlMs, pct)
  \/ \E t \in Pending, v \in FnResults : MemBgResolve(t, v)
  \/ \E t \in Pending : MemBgReject(t)
  \/ \E t \in Pending, v \in FnResults : MemMissResolve(t, v)
  \/ \E t \in Pending, e \in FnErrors : MemMissReject(t, e)
  \/ CacheTick

ValiditySpec == ValidityInit /\ [][ValidityNext]_vars

\* getMetrics applied to a provider whose counters have reached any values
\* up to MaxHits and MaxMisses
MetricsInit ==
  /\ now = 0
  /\ NewModules
  /\ NewBreaker(DefaultConfig)
  /\ backend \in {"memory", "redis"}
  /\ cache = [k \in Keys |-> NoEntry]
  /\ redis = [k \in Keys |-> NoRaw]
  /\ hits \in 0..MaxHits
  /\ misses \in 0..MaxMisses
  /\ refreshingKeys = {}
  /\ tasks = EmptyBag
  /\ cev = CEv("init", "none", 0, 0, "none", "none", FALSE)

MetricsNext ==
  \/ CacheGetMetrics
  \/ CacheResetMetrics

MetricsSpec == MetricsInit /\ [][MetricsNext]_vars

\* the promise of client.set settles (ioredis gives up after
\* maxRetriesPerRequest) and the event loop then runs the .finally handler
CacheLiveSpec == CacheSpec /\ WF_vars(\E t \in Pending : RedisBgSetDone(t))

(***************************************************************************)
(* Properties of the CircuitBreaker                                        *)
(***************************************************************************)
Executed == event'.op = "execute"
Rejected == Executed /\ event'.outcome = "threw" /\ event'.value = "CircuitBreakerError"
                     /\ calls' = calls
Invoked == Executed /\ event'.outcome = "invoked"
Settled == event'.op = "settle"
Succeeded == Settled /\ event'.outcome = "returned"
Failed == Settled /\ event'.outcome = "threw"
\* the call that settles in this step had been admitted as a HALF_OPEN trial
TrialSettled == Settled /\ calls'[HALF_OPEN] < calls[HALF_OPEN]
\* the smallest s with remaining <= 1000 * s: ceil(remaining / 1000)
WholeSeconds(remaining) ==
  CHOOSE s \in -10..10 : MsPerSecond * (s - 1) < remaining /\ remaining <= MsPerSecond * s
RemainingMs == resetTimeoutMs - (now - lastFailureTime)

\* C1: from CLOSED with failureCount = 0, a run of consecutive failed calls
\* leaves the breaker not OPEN while it is shorter than failureThreshold and
\* OPEN when it reaches failureThreshold; an execute call made while OPEN
\* with less than resetTimeoutMs elapsed since lastFailureTime throws a
\* CircuitBreakerError and invokes no function.
C1_OpensAtThreshold ==
  [][/\ (hist'.fromClosed /\ hist'.consecFails < failureThreshold) => cb'.state # OPEN
     /\ (Failed /\ hist'.fromClosed /\ hist'.consecFails = failureThreshold)
           => cb'.state = OPEN
     /\ (Executed /\ state = OPEN /\ lastFailureTime # Null
            /\ now - lastFailureTime < resetTimeoutMs) => Rejected]_vars
C1_Witness ==
  /\ failureThreshold = 2 /\ hist.fromClosed /\ hist.consecFails = 2
  /\ state = OPEN /\ now - lastFailureTime < resetTimeoutMs
  /\ event.op = "execute" /\ event.value = "CircuitBreakerError"

\* C2 (as claimed): with halfOpenMaxAttempts = 1, an execute call that starts
\* while a HALF_OPEN trial has not yet settled throws a CircuitBreakerError
\* and invokes no function.
C2_SecondCallFailsFast ==
  [][(Executed /\ halfOpenMaxAttempts = 1 /\ calls[HALF_OPEN] > 0) => Rejected]_vars
\* C2, first half: once resetTimeoutMs has elapsed while OPEN, the next execute
\* call moves the breaker to HALF_OPEN and invokes the function.
C2_TrialAdmitted ==
  [][(Executed /\ state = OPEN /\ now - lastFailureTime >= resetTimeoutMs)
       => (Invoked /\ cb'.state = HALF_OPEN /\ cb'.halfOpenAttempts = 1
           /\ calls'[HALF_OPEN] = calls[HALF_OPEN] + 1)]_vars

\* C3: between an entry into HALF_OPEN and the next exit from it at most
\* halfOpenMaxAttempts calls are admitted, and every further execute call in
\* that period throws CircuitBreakerError(secondsUntilRetry = 5) and invokes
\* no function.
C3_TrialQuota ==
  [][/\ hist'.trialsAdmitted <= halfOpenMaxAttempts
     /\ (Executed /\ state = HALF_OPEN /\ hist.trialsAdmitted >= halfOpenMaxAttempts)
           => (Rejected /\ event'.hint = HalfOpenRetrySeconds)]_vars
C3_Witness ==
  /\ halfOpenMaxAttempts = 2 /\ state = HALF_OPEN /\ hist.trialsAdmitted = 2
  /\ event.op = "execute" /\ event.value = "CircuitBreakerError"
  /\ event.hint = HalfOpenRetrySeconds

\* C4: a trial that succeeds while the breaker is HALF_OPEN leaves it CLOSED
\* with failureCount = 0 and halfOpenAttempts = 0; a trial that fails leaves
\* it OPEN with halfOpenAttempts = 0 and lastFailureTime = the time of the
\* failure, and (short of a manual reset) no call is admitted before
\* resetTimeoutMs has passed since that failure.
C4_TrialOutcome ==
  [][/\ (TrialSettled /\ Succeeded /\ state = HALF_OPEN)
           => (cb'.state = CLOSED /\ cb'.failureCount = 0 /\ cb'.halfOpenAttempts = 0)
     /\ (TrialSettled /\ Failed /\ state = HALF_OPEN)
           => (cb'.state = OPEN /\ cb'.halfOpenAttempts = 0 /\ cb'.lastFailureTime = now)
     /\ (Invoked /\ hist.trialFailedAt # Null)
           => now - hist.trialFailedAt >= resetTimeoutMs]_vars
C4_Witness ==
  /\ hist.trialFailedAt # Null /\ now - hist.trialFailedAt >= resetTimeoutMs
  /\ state = HALF_OPEN /\ event.op = "execute" /\ event.outcome = "invoked"

\* C5: whenever the wrapped function was invoked and settled, execute
\* delivers exactly its outcome: the same error value when it rejected, the
\* same result when it resolved, in every breaker state.
C5_OutcomeUnchanged ==
  event.op = "settle" =>
    /\ event.fn[1] = "rejected" => (event.outcome = "threw" /\ event.value = event.fn[2])
    /\ event.fn[1] = "resolved" => (event.outcome = "returned" /\ event.value = event.fn[2])
C5_Witness ==
  /\ event.op = "settle" /\ event.fn = <<"rejected", "e2">> /\ state = OPEN
  /\ hist.trialFailedAt = now

\* C6: reset() leaves state = CLOSED, failureCount = 0, halfOpenAttempts = 0
\* and successCount as it was, also with calls in flight; no operation ever
\* decreases successCount.
C6_Reset ==
  [][/\ event'.op = "reset"
           => (cb'.state = CLOSED /\ cb'.failureCount = 0 /\ cb'.halfOpenAttempts = 0
               /\ cb'.successCount = successCount)
     /\ cb'.successCount >= successCount]_vars
C6_Witness ==
  /\ event.op = "reset" /\ successCount > 0 /\ calls[HALF_OPEN] > 0
  /\ lastStateChange = now /\ lastFailureTime # Null

\* C7: a call that succeeds while the breaker is CLOSED sets failureCount to
\* 0 and leaves it CLOSED, and the breaker goes from CLOSED to OPEN only when
\* at least failureThreshold failures completed since the last success.
C7_SuccessDecay ==
  [][/\ (Succeeded /\ state = CLOSED) => (cb'.state = CLOSED /\ cb'.failureCount = 0)
     /\ (state = CLOSED /\ cb'.state = OPEN) => hist'.consecFails >= failureThreshold]_vars
C7_Witness ==
  /\ event.op = "settle" /\ event.outcome = "returned"
  /\ state = CLOSED /\ failureCount = 0 /\ lastFailureTime # Null
  /\ lastStateChange = Null /\ failureThreshold = 2

\* C8 (as claimed): the fail-fast hint in OPEN and, while OPEN,
\* getMetrics().secondsUntilHalfOpen both equal
\* ceil((resetTimeoutMs - (now - lastFailureTime)) / 1000); the metric is
\* null when the state is CLOSED or HALF_OPEN.
C8_HintIsCeil ==
  /\ (event.op = "execute" /\ event.outcome = "threw" /\ state = OPEN)
        => event.hint = WholeSeconds(RemainingMs)
  /\ state = OPEN => getMetrics(cb, now).secondsUntilHalfOpen = WholeSeconds(RemainingMs)
  /\ state # OPEN => getMetrics(cb, now).secondsUntilHalfOpen = Null
\* C8 (amended): as claimed while remaining = resetTimeoutMs - (now -
\* lastFailureTime) > 0, which covers every fail-fast error; while OPEN with
\* remaining <= 0 the metric is 0.
C8_HintIsClampedCeil ==
  /\ (event.op = "execute" /\ event.outcome = "threw" /\ state = OPEN)
        => (RemainingMs > 0 /\ event.hint = WholeSeconds(RemainingMs))
  /\ state = OPEN => getMetrics(cb, now).secondsUntilHalfOpen =
                        IF RemainingMs > 0 THEN WholeSeconds(RemainingMs) ELSE 0
  /\ state # OPEN => getMetrics(cb, now).secondsUntilHalfOpen = Null
C8_Witness ==
  /\ state = OPEN /\ RemainingMs = 400
  /\ event.op = "execute" /\ event.outcome = "threw" /\ event.hint = 1

\* C9: 0 <= halfOpenAttempts <= halfOpenMaxAttempts, and halfOpenAttempts = 0
\* whenever the state is not HALF_OPEN.
C9_AttemptsBounded ==
  /\ 0 <= halfOpenAttempts /\ halfOpenAttempts <= halfOpenMaxAttempts
  /\ state # HALF_OPEN => halfOpenAttempts = 0
C9_Witness ==
  /\ state = OPEN /\ halfOpenAttempts = 0 /\ halfOpenMaxAttempts = 2
  /\ calls[HALF_OPEN] = 1 /\ hist.trialFailedAt = now /\ event.op = "settle"

(***************************************************************************)
(* Properties of the cache providers                                       *)
(***************************************************************************)
\* the step in which a getWithRefresh call has its entry in hand: the call
\* itself on MemoryCache, the answer of client.get on RedisCache
Looked ==
  \/ backend = "memory" /\ cev'.op = "getWithRefresh"
  \/ backend = "redis" /\ cev'.op = "getReply" /\ cev'.outcome # "error"
\* the entry stored under k, as the backend would hand it out at time `now`
Stored(k) ==
  IF backend = "memory" THEN cache[k]
  ELSE IF redis[k] # NoRaw /\ now <= redis[k].pxAt THEN jsonParse(redis[k].raw)
  ELSE NoEntry
\* the entry under k is past the refresh threshold of the call and not yet
\* hard-expired
StaleValid(k, ttlMs, pct) ==
  /\ Stored(k) # NoEntry
  /\ 100 * now >= 100 * Stored(k).createdAt + ttlMs * pct
  /\ now < Stored(k).expiresAt
\* the background refreshFn invocations for k that have not settled
Refreshing(bag, k) == {t \in BagToSet(bag) : t.kind = "bg" /\ t.key = k}
RefreshCount(bag, k) ==
  IF Refreshing(bag, k) = {} THEN 0
  ELSE CopiesIn(CHOOSE t \in Refreshing(bag, k) : TRUE, bag) + Cardinality(Refreshing(bag, k)) - 1
\* the refreshFn invocations a caller of getWithRefresh is waiting for
Awaited(bag) == BagCardinality([t \in {u \in BagToSet(bag) : u.kind \in {"miss", "fallback"}}
                                  |-> CopiesIn(t, bag)])

\* C10: a getWithRefresh call that finds a stale-but-valid entry (refresh
\* threshold passed, now < expiresAt) returns the old cached value in that
\* very step, waiting for no refreshFn; it starts a background refreshFn only
\* when none is in flight for the key, so that at most one background refresh
\* per key is unsettled at any time on the provider instance.
C10_StaleServedOneRefresh ==
  [][/\ (Looked /\ StaleValid(cev'.key, cev'.ttlMs, cev'.pct))
           => /\ cev'.outcome = "stale"
              /\ cev'.value = Stored(cev'.key).data
              /\ Awaited(tasks') = Awaited(tasks)
              /\ cev'.started => RefreshCount(tasks, cev'.key) = 0
     /\ \A k \in Keys :
           /\ RefreshCount(tasks', k) <= 1
           /\ RefreshCount(tasks', k) > RefreshCount(tasks, k)
                 => (Looked /\ cev'.key = k /\ RefreshCount(tasks, k) = 0)]_vars
C10_Witness ==
  /\ backend = "redis" /\ cev.op = "getReply" /\ cev.outcome = "stale"
  /\ ~cev.started /\ cev.value \in FnResults
  /\ RefreshCount(tasks, cev.key) = 1 /\ cev.key \in refreshingKeys
  /\ hits = 2

\* the entry under k is inside the freshness window of the call
FreshNow(k, ttlMs, pct) ==
  /\ Stored(k) # NoEntry
  /\ 100 * now < 100 * Stored(k).createdAt + ttlMs * pct

\* C11: a getWithRefresh call that finds an entry with
\* now < entry.createdAt + ttlMs * refreshThresholdPercent / 100 counts one
\* hit, returns the cached value and invokes no refreshFn.
C11_FreshServedNoRefresh ==
  [][(Looked /\ FreshNow(cev'.key, cev'.ttlMs, cev'.pct))
        => /\ cev'.outcome = "fresh"
           /\ cev'.value = Stored(cev'.key).data
           /\ hits' = hits + 1 /\ misses' = misses
           /\ ~cev'.started
           /\ Awaited(tasks') = Awaited(tasks)
           /\ \A k \in Keys : RefreshCount(tasks', k) = RefreshCount(tasks, k)
           /\ refreshingKeys' = refreshingKeys]_vars
C11_Witness ==
  /\ cev.op \in {"getWithRefresh", "getReply"} /\ cev.outcome = "fresh"
  /\ cev.value \in FnResults /\ hits = 2 /\ now > 0
  /\ Stored(cev.key) # NoEntry /\ Stored(cev.key).createdAt = now

\* no entry is served for k: none is stored, or the stored one is hard-expired
MissNow(k) == Stored(k) = NoEntry \/ now >= Stored(k).expiresAt
\* the refreshFn awaited on the miss path settles in this step
MissSettled == \E t \in Pending : t.kind = "miss" /\ CopiesIn(t, tasks') < CopiesIn(t, tasks)
MissResolved == MissSettled /\ cev'.value \in FnResults
MissRejected == MissSettled /\ cev'.value \in FnErrors
\* the entry that set(key, data, ttlMs) at time `now` leaves under k, or (on
\* RedisCache, when the write failed) the store as it was
StoredBySet(k, data, ttlMs) ==
  IF backend = "memory" THEN cache'[k] = newEntry(data, now, ttlMs) /\ redis' = redis
  ELSE /\ cache' = cache
       /\ \/ redis' = redis
          \/ /\ redis'[k] # NoRaw /\ jsonParse(redis'[k].raw) = newEntry(data, now, ttlMs)
             /\ \A j \in Keys \ {k} : redis'[j] = redis[j]

\* C12 (as claimed): a getWithRefresh call that finds no entry or a
\* hard-expired one counts a miss and calls refreshFn; when refreshFn resolves
\* the result is stored under the key with the given ttlMs and returned; when
\* refreshFn fails, that failure is what the caller receives, no entry is
\* written and no further refreshFn is called, on both backends.
C12_MissStoresOrPropagates ==
  [][/\ (Looked /\ MissNow(cev'.key))
           => /\ cev'.outcome = "miss" /\ cev'.started
              /\ misses' = misses + 1 /\ hits' = hits
              /\ Awaited(tasks') = Awaited(tasks) + 1
     /\ MissResolved => StoredBySet(cev'.key, cev'.value, cev'.ttlMs)
     /\ MissRejected
           => /\ cev'.outcome = "threw"
              /\ cache' = cache /\ redis' = redis
              /\ misses' = misses
              /\ Awaited(tasks') = Awaited(tasks) - 1]_vars

\* the background refreshFn settles in this step
BgSettled == \E t \in Pending : t.kind = "bg" /\ CopiesIn(t, tasks') < CopiesIn(t, tasks)
BgResolved == BgSettled /\ cev'.value \in FnResults
BgRejected == BgSettled /\ cev'.value \notin FnResults
\* the follow-up this.set of a resolved background refresh has not settled
Writing(bag, k) == \E t \in BagToSet(bag) : t.kind = "bgSet" /\ t.key = k

\* C13: when the background refreshFn fails, no caller receives the failure,
\* the store is left as it was and the key leaves refreshingKeys; when it
\* succeeds, the result is written with set and the key leaves refreshingKeys
\* (on RedisCache once that set has settled); a key is in refreshingKeys only
\* while its refresh or the follow-up set is pending, and once refreshFn has
\* settled the key eventually leaves refreshingKeys.
C13_BackgroundRefreshForgets ==
  /\ [][/\ BgRejected
              => /\ cev'.outcome # "threw"
                 /\ Awaited(tasks') = Awaited(tasks)
                 /\ cache' = cache /\ redis' = redis
                 /\ cev'.key \notin refreshingKeys'
        /\ BgResolved
              => /\ StoredBySet(cev'.key, cev'.value, cev'.ttlMs)
                 /\ cev'.outcome # "threw"
                 /\ Awaited(tasks') = Awaited(tasks)
                 /\ cev'.key \notin refreshingKeys' \/ Writing(tasks', cev'.key)
        /\ \A k \in Keys :
              k \in refreshingKeys' => (RefreshCount(tasks', k) = 1 \/ Writing(tasks', k))]_vars
  /\ \A k \in Keys :
        (k \in refreshingKeys /\ RefreshCount(tasks, k) = 0) ~> (k \notin refreshingKeys)
C13_Witness ==
  /\ backend = "redis" /\ cev.op = "bgSettle" /\ cev.outcome = "done"
  /\ cev.key \notin refreshingKeys /\ RefreshCount(tasks, cev.key) = 0
  /\ Stored(cev.key) # NoEntry /\ Stored(cev.key).createdAt > 0

\* a get call takes a step / returns in this step
GetStep == cev'.op = "get"
GetReturned == GetStep /\ cev'.outcome \in {"hit", "miss", "error"}
\* the step of a get call in which it looks the key up
GetLooked == GetStep /\ BagCardinality(tasks') >= BagCardinality(tasks)
\* the entry under k is present and now <= expiresAt
ValidNow(k) == Stored(k) # NoEntry /\ now <= Stored(k).expiresAt
\* what the backend holds under k after the step
StoredAfter(k) == IF backend = "memory" THEN cache'[k] # NoEntry ELSE redis'[k] # NoRaw

\* C14: get(key) returns the stored value when an entry is present and
\* now <= expiresAt and null otherwise; every get call adds exactly 1 to
\* exactly one of hits / misses, to hits exactly when a value is returned; a
\* get that finds an expired entry removes it from the store.  (On RedisCache
\* a failed command is the soft failure: it counts as a miss, and a failed
\* client.del leaves the expired entry to the native expiry.)
C14_Get ==
  [][/\ GetLooked
          => /\ (ValidNow(cev'.key) /\ cev'.outcome # "error")
                   => (cev'.outcome = "hit" /\ cev'.value = Stored(cev'.key).data)
             /\ ~ValidNow(cev'.key) => cev'.outcome # "hit"
             /\ (Stored(cev'.key) # NoEntry /\ ~ValidNow(cev'.key) /\ cev'.outcome # "error")
                   => (~StoredAfter(cev'.key) \/ cev'.value = "notDeleted")
             /\ ~GetReturned => BagCardinality(tasks') = BagCardinality(tasks) + 1
     /\ GetStep
          => /\ cev'.outcome # "hit" => cev'.value \notin FnResults
             /\ GetReturned
                   => /\ cev'.outcome = "hit" => (hits' = hits + 1 /\ misses' = misses)
                      /\ cev'.outcome # "hit"
                            => (hits' = hits /\ misses' = misses + 1 /\ cev'.value = "null")
             /\ ~GetReturned => (hits' = hits /\ misses' = misses)]_vars
C14_Witness ==
  /\ backend = "redis" /\ cev.op = "get" /\ cev.outcome = "expired"
  /\ cev.value = "deleted" /\ redis[cev.key] = NoRaw /\ hits = 1
  /\ BagCardinality(tasks) = 1

\* the time since the set of the entry under k is at least its ttl (which
\* includes every entry set with ttl <= 0)
TtlElapsed(k) == Stored(k) # NoEntry /\ now >= Stored(k).expiresAt

\* C15 (as claimed): once the elapsed time since its set is >= ttl, and from
\* the start when ttl <= 0, an entry is not served: get(k) returns null and
\* counts a miss, and stats() does not report k.
C15_ExpiredNotServed ==
  [][/\ (GetLooked /\ TtlElapsed(cev'.key) /\ cev'.outcome # "error")
          => cev'.outcome # "hit"
     /\ (cev'.op = "stats" /\ backend = "memory")
          => \A k \in Keys : TtlElapsed(k) => k \notin stats(cache, now).keys]_vars

\* the last operation was a set (one that reached the store) with a positive
\* ttl, and no time has passed since
JustSet == cev.op = "set" /\ cev.ttlMs > 0 /\ (backend = "memory" \/ cev.outcome = "stored")
\* a set (one that reached the store) takes place in this step
SetDone == cev'.op = "set" /\ (backend = "memory" \/ cev'.outcome = "stored")
\* the entry the backend holds under k after the step
EntryAfter(k) ==
  IF backend = "memory" THEN cache'[k]
  ELSE IF redis'[k] # NoRaw THEN jsonParse(redis'[k].raw) ELSE NoEntry

\* C16: set(k, v, ttl) with a positive ttl followed at once (no time elapsed,
\* no other operation) by get(k) returns v, and followed at once by has(k)
\* gives true; set replaces whatever entry was stored under k.
C16_RoundTrip ==
  [][/\ (JustSet /\ GetLooked /\ cev'.key = cev.key /\ cev'.outcome # "error")
          => (cev'.outcome = "hit" /\ cev'.value = cev.value)
     /\ (JustSet /\ cev'.op = "has" /\ cev'.key = cev.key /\ cev'.outcome # "error")
          => cev'.outcome = "true"
     /\ SetDone => EntryAfter(cev'.key) = newEntry(cev'.value, now, cev'.ttlMs)]_vars
C16_Witness ==
  /\ backend = "memory" /\ cev.op = "get" /\ cev.outcome = "hit" /\ cev.value = "r2"
  /\ hits = 2 /\ now > 0 /\ cache[cev.key] = newEntry("r2", now, 800)

\* C17 (as claimed): has(key) returns true exactly when get(key) would
\* return a value at the same instant (an entry is present and
\* now <= expiresAt), and leaves hits and misses as they were.
C17_HasAgreesWithGet ==
  [][cev'.op = "has"
       => /\ cev'.outcome # "error" => (cev'.outcome = "true" <=> ValidNow(cev'.key))
          /\ hits' = hits /\ misses' = misses]_vars

\* a clear() call returns in this step
ClearReturned == cev'.op = "clear" /\ cev'.outcome \in {"returned", "logged"}
\* the keys stats() would report after the step
KeysAfter ==
  IF backend = "memory" THEN {k \in Keys : cache'[k] # NoEntry /\ ~expired(cache'[k], now)}
  ELSE {k \in Keys : redis'[k] # NoRaw /\ now <= redis'[k].pxAt}

\* C18 (as claimed): when clear() returns, the provider holds no entries
\* (stats().size = 0) and hits = misses = 0, on both backends, also when
\* client.keys or client.del fails.
C18_ClearEmpties ==
  [][ClearReturned => (KeysAfter = {} /\ hits' = 0 /\ misses' = 0)]_vars

\* round(100 * h / (h + m)), halves upwards, in exact arithmetic
ExactRate(h, m) == (200 * h + (h + m)) \div (2 * (h + m))

\* C19 (as claimed): getMetrics() returns
\* hitRate = round(100 * hits / (hits + misses)) when hits + misses > 0 and
\* 0 when hits + misses = 0, so 0 <= hitRate <= 100, and it changes no state.
C19_HitRate ==
  [][cev'.op = "getMetrics"
       => /\ cev'.pct = IF hits + misses > 0 THEN ExactRate(hits, misses) ELSE 0
          /\ 0 <= cev'.pct /\ cev'.pct <= 100
          /\ UNCHANGED <<now, cache, redis, backend, hits, misses, refreshingKeys, tasks>>]_vars

\* a getWithRefresh call on RedisCache is handed its result in this step
RefreshReturned ==
  \/ cev'.op = "fallbackSettle" /\ cev'.value \in FnResults
  \/ \E t \in Pending : t.kind = "missSet" /\ CopiesIn(t, tasks') < CopiesIn(t, tasks)
\* the refreshFn invocations of the catch block that have not settled
Fallbacks(bag) == BagCardinality([t \in {u \in BagToSet(bag) : u.kind = "fallback"}
                                    |-> CopiesIn(t, bag)])
\* the miss-path calls waiting for their set, with the value they will return
MissSets(bag, v) == BagCardinality([t \in {u \in BagToSet(bag) : u.kind = "missSet" /\ u.value = v}
                                      |-> CopiesIn(t, bag)])

\* C20: when a Redis command fails, get returns null and counts a miss, set
\* returns without writing, and neither throws; getWithRefresh then counts a
\* miss, calls refreshFn and returns its result, and a failed write of that
\* result (on the fallback path and on the miss path) is not propagated.
C20_SoftFailure ==
  [][/\ (cev'.op = "get" /\ cev'.outcome = "error")
          => (cev'.value = "null" /\ misses' = misses + 1 /\ hits' = hits /\ redis' = redis)
     /\ (cev'.op = "set" /\ cev'.outcome = "logged") => (redis' = redis /\ tasks' = tasks)
     /\ (cev'.op = "getReply" /\ cev'.outcome = "error")
          => /\ Fallbacks(tasks') = Fallbacks(tasks) + 1
             /\ misses' = misses + 1 /\ hits' = hits /\ redis' = redis
     /\ (cev'.op = "fallbackSettle" /\ cev'.value \in FnResults)
          => /\ cev'.outcome = "returned"
             /\ Fallbacks(tasks') = Fallbacks(tasks) - 1
             /\ redis' = redis \/ EntryAfter(cev'.key) = newEntry(cev'.value, now, cev'.ttlMs)
     /\ (MissResolved /\ backend = "redis")
          => MissSets(tasks', cev'.value) = MissSets(tasks, cev'.value) + 1
     /\ (cev'.op \in {"get", "set", "getReply"} \/ RefreshReturned) => cev'.outcome # "threw"
     /\ \A v \in FnResults :
          MissSets(tasks', v) < MissSets(tasks, v)
             => (cev'.outcome = "returned" /\ cev'.value = v)]_vars
C20_Witness ==
  /\ backend = "redis" /\ cev.op = "fallbackSettle" /\ cev.outcome = "returned"
  /\ cev.value \in FnResults /\ redis[cev.key] = NoRaw /\ misses = 1 /\ hits = 0
  /\ tasks = EmptyBag

(***************************************************************************)
(* executeWithRetry                                                        *)
(***************************************************************************)
\* the message of a thrown value contains one of the signatures
Matches(error, patterns) ==
  \E p \in patterns : \E i \in 1..Len(error.text) : error.text[i] = p
Retryable(error) ==
  Matches(error, RETRYABLE_PATTERNS) /\ ~Matches(error, NON_RETRYABLE_PATTERNS)
\* this step is fn() rejecting with error
RejectsWith(error) == rt.phase = "calling" /\ rt'.errors = Append(rt.errors, error)
\* this step enters executeWithRetry
NewRetryCall == rt'.errors = <<>> /\ rt'.waits = <<>> /\ rt'.result = "none"
RetryDone == rt.phase \in {"returned", "threw"}

C22_NonRetryablePropagates ==
  [][/\ \A error \in ThrownValues :
          (RejectsWith(error) /\ ~Retryable(error) /\ rt.maxRetries >= 1)
             => /\ rt'.phase = "threw" /\ rt'.thrown = error
                /\ rt'.waits = rt.waits /\ rt'.invoked = rt.invoked
                /\ rt'.invoked = Len(rt'.errors)
     /\ rt.phase = "threw" => (rt'.phase = "threw" \/ NewRetryCall)]_vars
C22_Witness ==
  /\ rt.phase = "threw" /\ rt.maxRetries = 3 /\ rt.invoked = 1
  /\ rt.thrown = Thrown(TRUE, <<"Invalid credentials">>) /\ rt.waits = <<>>

\* C23: an error is retried if and only if its message matches no
\* non-retryable signature and at least one retryable signature: a message
\* matching both lists, or neither, is not retried.
C23_Classification ==
  [][\A error \in ThrownValues :
        (RejectsWith(error) /\ rt.attempt < rt.maxRetries)
           => /\ rt'.phase = "waiting"
                   <=> (/\ Matches(error, RETRYABLE_PATTERNS)
                        /\ ~Matches(error, NON_RETRYABLE_PATTERNS))
              /\ (/\ Matches(error, RETRYABLE_PATTERNS)
                  /\ Matches(error, NON_RETRYABLE_PATTERNS)) => rt'.phase = "threw"
              /\ (/\ ~Matches(error, RETRYABLE_PATTERNS)
                  /\ ~Matches(error, NON_RETRYABLE_PATTERNS)) => rt'.phase = "threw"]_vars
C23_Witness ==
  /\ rt.phase = "threw" /\ rt.maxRetries = 3 /\ Len(rt.errors) = 2
  /\ Retryable(rt.errors[1])
  /\ Matches(rt.errors[2], RETRYABLE_PATTERNS)
  /\ Matches(rt.errors[2], NON_RETRYABLE_PATTERNS)

\* C24: a success on attempt k <= maxRetries after k-1 retryable failures is
\* returned, fn has then been invoked exactly k times and the call invokes it
\* no more; fn is never invoked more than maxRetries times.
C24_StopsAtFirstSuccess ==
  /\ [](rt.invoked <= rt.maxRetries)
  /\ [](rt.phase = "returned"
          => /\ rt.result \in FnResults
             /\ rt.invoked = Len(rt.errors) + 1
             /\ \A i \in 1..Len(rt.errors) : Retryable(rt.errors[i]))
  /\ [][/\ (rt.phase = "calling" /\ rt'.errors = rt.errors)
             => (rt'.phase = "returned" /\ rt'.invoked = rt.invoked)
        /\ rt.phase = "returned" => (rt' = rt \/ NewRetryCall)]_vars
C24_Witness ==
  /\ rt.phase = "returned" /\ rt.maxRetries = 3 /\ rt.invoked = 3
  /\ Len(rt.errors) = 2 /\ rt.result = "r1"

(***************************************************************************)
(* The cache factory                                                       *)
(***************************************************************************)
\* C25: the getCache() calls made with no resetCache() in between return one
\* and the same instance and construct at most one provider; the first
\* getCache() after a resetCache() constructs an instance that did not exist
\* before and returns it, and the calls after it return that instance.
C25_Singleton ==
  /\ [](Cardinality(factory.served) <= 1 /\ factory.built <= 1)
  /\ [][/\ factory'.op = "getCache" /\ factory.op = "resetCache"
             => /\ Len(factory'.instances) = Len(factory.instances) + 1
                /\ factory'.returned = Len(factory'.instances)
        /\ (factory'.op = "getCache" /\ factory.op \in {"getCache", "load"})
             => /\ factory'.returned = factory.returned
                /\ factory'.instances = factory.instances]_vars
C25_Witness ==
  /\ factory.op = "getCache" /\ Len(factory.instances) = 3
  /\ factory.returned = 3 /\ factory.served = {3} /\ factory.built = 1
  /\ factory.cache = 1

(***************************************************************************)
(* The shared circuit breaker                                              *)
(***************************************************************************)
\* C26: getSharedCircuitBreaker, getSharedCircuitBreakerState and
\* getSharedCircuitBreakerMetrics all operate on one CircuitBreaker object,
\* the only one ever constructed; resetSharedCircuitBreaker leaves that object
\* in place with its state CLOSED, and constructs nothing when there is none.
C26_OneSharedBreaker ==
  /\ [](Len(registry.objects) <= 1)
  /\ [][/\ registry.sharedBreaker # Null => registry'.sharedBreaker = registry.sharedBreaker
        /\ registry'.op \in {"get", "getState", "getMetrics"}
             => /\ registry'.on = 1 /\ registry'.sharedBreaker = 1
                /\ registry.objects # <<>> => registry'.objects = registry.objects
        /\ registry'.op = "getState" => registry'.returned = registry'.objects[1].state
        /\ registry'.op = "getMetrics"
             => registry'.returned.state = registry'.objects[1].state
        /\ (registry'.op = "reset" /\ registry.sharedBreaker # Null)
             => /\ Len(registry'.objects) = Len(registry.objects)
                /\ registry'.objects[registry.sharedBreaker].state = CLOSED
                /\ registry'.objects[registry.sharedBreaker].failureCount = 0
        /\ (registry'.op = "reset" /\ registry.sharedBreaker = Null)
             => (registry'.objects = <<>> /\ registry'.sharedBreaker = Null)]_vars
C26_Witness ==
  /\ registry.op = "reset" /\ registry.sharedBreaker = 1
  /\ registry.objects[1].state = CLOSED
  /\ registry.objects[1].lastFailureTime # Null
  /\ registry.objects[1].lastStateChange = now /\ now > 0

(***************************************************************************)
(* The bounded local store                                                 *)
(***************************************************************************)
Held(c) == {c.order[i] : i \in 1..Len(c.order)}
Position(c, k) == CHOOSE i \in 1..Len(c.order) : c.order[i] = k
\* this step is a lookup of cev'.key by get, has or getWithRefresh
LruLookup == cev'.op \in {"get", "has", "getWithRefresh"}
\* this step is a set of cev'.key, by a caller or by a settled refresh
LruStores ==
  \/ cev'.op = "set"
  \/ cev'.op = "bgSettle" /\ cev'.outcome = "stored"
  \/ cev'.op = "missSettle" /\ cev'.outcome = "returned"

HeldEntries ==
  {cache[k] : k \in {x \in Keys : cache[x] # NoEntry}}
    \cup {jsonParse(redis[k].raw) : k \in {x \in Keys : redis[x] # NoRaw}}

\* C28: every entry a backend holds has expiresAt >= createdAt, whatever
\* ttlMs it was set with.
C28_EntryInvariant ==
  \A entry \in HeldEntries : entry.expiresAt >= entry.createdAt

(***************************************************************************)
(* Accounting of getWithRefresh                                            *)
(***************************************************************************)
\* this step is the lookup of a getWithRefresh call being answered, with the
\* entry, with its absence or with a backend error
Answered == Looked \/ (backend = "redis" /\ cev'.op = "getReply" /\ cev'.outcome = "error")

\* C29: a getWithRefresh call adds exactly 1 to exactly one of hits and misses,
\* in the step that looks the entry up (or finds the backend failing), and
\* invokes refreshFn at most once, in that same step: no later step of the call
\* counts again or invokes refreshFn again.
C29_OneCountOneRefresh ==
  [][/\ Answered => /\ hits' + misses' = hits + misses + 1
                    /\ hits' >= hits /\ misses' >= misses
     /\ ~Answered => (hits' = hits /\ misses' = misses /\ ~cev'.started)]_vars

(***************************************************************************)
(* Hard expiry under getWithRefresh                                        *)
(***************************************************************************)
\* C30: a getWithRefresh call that returns the cached value (fresh or stale)
\* found an entry that is not hard-expired: now < entry.expiresAt, whatever
\* ttlMs the entry was stored with and whatever ttlMs and
\* refreshThresholdPercent the call passes.
C30_NoExpiredValue ==
  [][(Looked /\ cev'.outcome \in {"fresh", "stale"})
        => (Stored(cev'.key) # NoEntry /\ now < Stored(cev'.key).expiresAt)]_vars

(***************************************************************************)
(* Concurrent refreshes                                                    *)
(***************************************************************************)
\* the refreshFn invocations for k that have not settled, on any path
InFlightFor(k) ==
  BagCardinality([t \in {u \in Pending : u.key = k /\ u.kind \in {"miss", "fallback", "bg"}}
                    |-> CopiesIn(t, tasks)])

\* C31: on one provider instance at most one refreshFn invocation per key is
\* unsettled at any time, whichever path of getWithRefresh started it.
C31_OneRefreshInFlight ==
  \A k \in Keys : InFlightFor(k) <= 1

\* the entry held under k before this step
EntryBefore(k) ==
  IF backend = "memory" THEN cache[k]
  ELSE IF redis[k] # NoRaw THEN jsonParse(redis[k].raw) ELSE NoEntry
\* the last operation, made while the background refresh for its key was in
\* flight, deleted the key or stored a value under it
LaterOperation ==
  /\ cev.op \in {"delete", "set", "missSettle"}
  /\ cev.op = "missSettle" => cev.outcome = "returned"
  /\ RefreshCount(tasks, cev.key) > 0

\* C32: when delete(key) or a newer set or miss-path store for the key has
\* happened while a background refresh for the key was in flight, the refresh
\* that then settles leaves the entry as that operation left it: deleted, or
\* holding the newer value.
C32_LateRefreshKeepsLaterWrite ==
  [][(LaterOperation /\ BgResolved /\ cev'.key = cev.key)
        => EntryAfter(cev.key) = EntryBefore(cev.key)]_vars

(***************************************************************************)
(* Late completions in the CircuitBreaker                                  *)
(***************************************************************************)
\* a call admitted in state c settles in this step
SettledFrom(c) == calls'[c] < calls[c]

\* C33: the breaker leaves HALF_OPEN for CLOSED only when a call admitted as
\* a HALF_OPEN trial succeeds, and for OPEN only when such a trial fails (a
\* manual reset aside); a call admitted while CLOSED that settles while the
\* breaker is HALF_OPEN leaves the state as it is.
C33_OnlyTrialsLeaveHalfOpen ==
  [][/\ (state = HALF_OPEN /\ cb'.state = CLOSED /\ event'.op # "reset")
           => (SettledFrom(HALF_OPEN) /\ event'.outcome = "returned")
     /\ (state = HALF_OPEN /\ cb'.state = OPEN)
           => (SettledFrom(HALF_OPEN) /\ event'.outcome = "threw")
     /\ (state = HALF_OPEN /\ SettledFrom(CLOSED)) => cb'.state = HALF_OPEN]_vars

\* C34: while the breaker stays OPEN, lastFailureTime, and with it the
\* instant lastFailureTime + resetTimeoutMs of the next admission, does not
\* change, whatever happens: in particular not by the late failure of a call
\* admitted before the breaker opened.
C34_OpenDeadlineFixed ==
  [][(state = OPEN /\ cb'.state = OPEN)
        => cb'.lastFailureTime = cb.lastFailureTime]_vars


(***************************************************************************)
(* The CLOSED state and the failure threshold                              *)
(***************************************************************************)
\* C35: in every reachable state, under every interleaving of concurrent
\* execute calls and reset(), a CLOSED breaker has counted fewer consecutive
\* failures than failureThreshold.
C35_ClosedBelowThreshold ==
  state = CLOSED => failureCount < failureThreshold

\* a CLOSED breaker one failure short of its threshold, after a success was
\* counted and with a call in flight
C35_Witness ==
  /\ state = CLOSED
  /\ failureCount > 0
  /\ failureCount = failureThreshold - 1
  /\ successCount > 0
  /\ InFlight > 0


(***************************************************************************)
(* Recovery of the CircuitBreaker                                          *)
(***************************************************************************)
\* the counters of the model are bounded: a call in flight can settle while
\* one of them is below its bound
CountersOpen == successCount < MaxSuccess \/ failureCount < MaxFailures

\* the HALF_OPEN breaker has used up its trial quota and no admitted call is
\* in flight whose outcome could move it
StuckHalfOpen == state = HALF_OPEN /\ quotaConsumed(cb) /\ InFlight = 0

\* an execute call that arrives at an OPEN breaker whose reset timeout has
\* elapsed invokes the wrapped function
AdmitsAfterTimeout ==
  (state = OPEN /\ shouldTransitionToHalfOpen(cb, now) /\ event'.op = "execute")
     => event'.outcome = "invoked"

\* C36: the breaker is never stuck in HALF_OPEN with its trial quota consumed
\* and no admitted call in flight; when every invoked wrapped function
\* eventually settles, a HALF_OPEN breaker eventually becomes CLOSED or OPEN;
\* and an OPEN breaker whose resetTimeoutMs has elapsed admits the next
\* execute call.
C36_RecoveryLiveness ==
  /\ [](~StuckHalfOpen)
  /\ (state = HALF_OPEN /\ CountersOpen) ~> (state # HALF_OPEN)
  /\ [][AdmitsAfterTimeout]_vars

\* C36 amended: the same for a breaker constructed with halfOpenMaxAttempts
\* of at least 1.
C36_RecoveryWithQuota ==
  /\ [](halfOpenMaxAttempts >= 1 => ~StuckHalfOpen)
  /\ (halfOpenMaxAttempts >= 1 /\ state = HALF_OPEN /\ CountersOpen)
        ~> (state # HALF_OPEN)
  /\ [][halfOpenMaxAttempts >= 1 => AdmitsAfterTimeout]_vars

\* a trial admitted after the reset timeout has settled and moved the breaker
\* out of HALF_OPEN while a call admitted earlier is still in flight
C36_Witness ==
  /\ halfOpenMaxAttempts >= 1
  /\ event.op = "settle"
  /\ state \in {CLOSED, OPEN}
  /\ lastStateChange >= resetTimeoutMs
  /\ hist.trialFailedAt # Null \/ successCount > 0
  /\ InFlight > 0


(***************************************************************************)
(* The retry loop around the breaker                                       *)
(***************************************************************************)
\* in this step the function passed to executeWithRetry, breaker.execute,
\* failed with the CircuitBreakerError of a refused admission
BreakerRefused ==
  /\ rt' # rt
  /\ event'.op = "execute"
  /\ event'.outcome = "threw"

\* C37: when the function passed to executeWithRetry fails with the
\* CircuitBreakerError of CircuitBreaker.execute (circuit OPEN, or HALF_OPEN
\* with the quota consumed), executeWithRetry takes it for non-retryable under
\* every breaker configuration: it makes no further attempt and throws that
\* error at once.
C37_BreakerErrorNotRetried ==
  [][BreakerRefused
        => /\ rt'.phase = "threw"
           /\ rt'.thrown = rt'.errors[Len(rt'.errors)]
           /\ ~isRetryableError(rt'.thrown)]_vars


(***************************************************************************)
(* executeWithRetry under every maxRetries                                 *)
(***************************************************************************)
\* C38: whatever maxRetries the caller passes, 0 included, a finished
\* executeWithRetry call has invoked the wrapped function at least once, and
\* a call that failed threw an error the wrapped function raised.
C38_InvokedAtLeastOnce ==
  RetryDone
     => /\ rt.invoked >= 1
        /\ rt.phase = "threw"
              => \E i \in 1..Len(rt.errors) : rt.thrown = rt.errors[i]


(***************************************************************************)
(* The exported cache object and getCache()                                *)
(***************************************************************************)
\* C39: after any sequence of getCache() and resetCache() calls, the instance
\* getCache() returns is the instance bound to the exported `cache`, so that
\* what is written through one is read through the other.
C39_ExportIsActiveProvider ==
  (factory.loaded /\ factory.op = "getCache") => factory.returned = factory.cache


(***************************************************************************)
(* get and getWithRefresh on the same entry                                *)
(***************************************************************************)
\* C40: at every instant, for an entry past its refresh threshold,
\* getWithRefresh serves the cached value exactly when get would return it;
\* the two agree in particular at now = expiresAt.
C40_SameValidity ==
  \A k \in Keys, ttlMs \in CacheTtls, pct \in Percents :
     (cache[k] # NoEntry /\ ~stillFresh(cache[k], now, ttlMs, pct))
        => (lookup(cache[k], TRUE, now, ttlMs, pct) = "stale"
               <=> get(cache, k, now).hit)

=============================================================================
